---- MODULE Spec2Model ----
(***************************************************************************)
(* A model of the thoth-loader metadata loaders: contributor               *)
(* reconciliation against the in-memory cache and the remote (Thoth)       *)
(* store, publication/location assembly, series/issue ordinals, the        *)
(* Crossref client's retry loop and the per-record work lookup.            *)
(*                                                                         *)
(* Each subsystem has its own variables and its own specification; a       *)
(* specification holds the variables of the other subsystems at rest.      *)
(***************************************************************************)
EXTENDS Integers, Sequences, FiniteSets, TLC

\* Python's None
None == "None"

VARIABLES
    \* --- contributor merge (check_update_contributor and its two copies)
    m_pc,            \* "start" | "done"
    m_fn,            \* the function applied
    m_thoth,         \* the remote contributor record before the call
    m_contributor,   \* the newly parsed contributor dict passed in
    m_updates,       \* the update_contributor payloads sent, in order
    \* --- create_contributors (SciELOLoader, UbiquityPressesLoader)
    loader,              \* which loader class runs: "scielo" | "ubiquity"
    all_contributors,    \* BookLoader.all_contributors: key -> contributorId
    thoth_contributors,  \* remote contributors; contributorId is the index
    thoth_contributions, \* remote contributions of each work; workId is the index
    data,                \* the records of the input file, in order
    run,                 \* 1: first run over data, 2: second run over the same data
    pos,                 \* records of data already processed in run 2
    calls,               \* remote write calls issued so far, in order
    resolutions,         \* per creator processed: how its identity was resolved
    \* --- UbiquityPressesLoader.create_publications, one publication type
    p_pc,                \* "idle" | "delete" | "canonical" | "others" | "done"
    thoth_publication,   \* the work has a publication of this type remotely
    thoth_locations,     \* the publication's remote locations, as listed
    next_location_id,    \* the next locationId the remote system hands out
    existing_pub,        \* existing_pub found in the fetched work
    existing_locations,  \* existing_pub.locations of the fetched work
    new_canonical_location,      \* <<>> (None) or <<location>>
    new_non_canonical_locations, \* the stored-up non-canonical locations
    p_i,                 \* position of the loop in progress
    p_calls,             \* remote write calls of the current call, in order
    p_used,              \* incoming locations read so far
    p_row,               \* the prices and locations of the row last read
    p_run,               \* 1: the row was read once, 2: it was read again
    \* --- create_series of LHarmattanLoader and UbiquityAPILoader, one series
    all_series,          \* BookLoader.all_series: seriesName -> seriesId
    thoth_issues,        \* the remote issues of the series
    s_loader,            \* the loader of the last create_series call
    s_series_number,     \* the record's series_number in that call (or None)
    s_row,               \* the series name and ISSN given to that call, and
                         \* whether the name was in all_series
    s_issues,            \* the remote issues of the series before that call
    s_calls,             \* the remote write calls of that call, in order
    s_outcome,           \* how that call ended
    s_used,              \* create_series calls so far
    \* --- CrossrefClient.get_doi
    retry_count,         \* CrossrefClient.retry_count
    x_pc,                \* "idle" | "request" | "returned" | an exception
    x_doi,               \* the DOI of the get_doi call in progress
    x_requests,          \* HTTP requests issued for that call
    x_depth,             \* frames of get_doi on the stack
    x_returned,          \* DOI -> what get_doi returned for it
    x_used,              \* get_doi calls of the caller so far
    \* --- run(): the work of one record is looked up, updated or created
    r_loader,            \* the loader that runs
    thoth_works,         \* the remote works: DOI -> workId
    r_doi,               \* the DOI of the last record
    r_found,             \* work_by_doi found a work for it
    r_calls,             \* the remote calls made for it, in order
    r_outcome,           \* "updated" | "created" | "SystemExit"
    r_used,              \* records processed so far
    \* --- the field normalisers of BookLoader
    f_fn,                \* the normaliser last applied
    f_in,                \* its argument(s)
    f_out,               \* what it returned, or the exception it raised
    \* --- one call of a handler on a record and the work fetched for it
    h_fn,                \* the handler called
    h_record,            \* the record (row, JSON object, list) it is given
    h_work,              \* the remote state as it was fetched before the call
    h_thoth,             \* the remote state after the call
    h_calls,             \* the remote calls of the handler, in order
    h_out,               \* what the handler returned, and what it raised
    \* --- ObpChapterLoaderCrossref.run, the chapters of one book
    o_pc,                \* "idle" | "loop" | "done"
    relation_ordinal,    \* the chapter ordinal probed next
    skip_count,          \* times a chapter was not found in Crossref
    o_crossref,          \* Crossref: chapter ordinal -> what it has for the DOI
    o_thoth,             \* the chapter ordinals whose DOI is in Thoth
    o_missed,            \* the ordinals Crossref reported missing, in order
    o_calls              \* the remote write calls for the book, in order

mergeVars == <<m_pc, m_fn, m_thoth, m_contributor, m_updates>>

contribVars == <<loader, all_contributors, thoth_contributors,
                 thoth_contributions, data, run, pos, calls, resolutions>>

pubVars == <<p_pc, thoth_publication, thoth_locations, next_location_id,
             existing_pub, existing_locations, new_canonical_location,
             new_non_canonical_locations, p_i, p_calls, p_used, p_row, p_run>>

seriesVars == <<all_series, thoth_issues, s_loader, s_series_number, s_row,
                s_issues, s_calls, s_outcome, s_used>>

crossrefVars == <<retry_count, x_pc, x_doi, x_requests, x_depth, x_returned,
                  x_used>>

runVars == <<r_loader, thoth_works, r_doi, r_found, r_calls, r_outcome, r_used>>

sanVars == <<f_fn, f_in, f_out>>

handlerVars == <<h_fn, h_record, h_work, h_thoth, h_calls, h_out>>

obpVars == <<o_pc, relation_ordinal, skip_count, o_crossref, o_thoth, o_missed,
             o_calls>>

vars == <<mergeVars, contribVars, pubVars, seriesVars, crossrefVars, runVars,
          sanVars, handlerVars, obpVars>>

\* what the actions of one subsystem leave alone
notMerge == <<contribVars, pubVars, seriesVars, crossrefVars, runVars,
    sanVars, handlerVars, obpVars>>
notContrib == <<mergeVars, pubVars, seriesVars, crossrefVars, runVars,
    sanVars, handlerVars, obpVars>>
notPub == <<mergeVars, contribVars, seriesVars, crossrefVars, runVars,
    sanVars, handlerVars, obpVars>>
notSeries == <<mergeVars, contribVars, pubVars, crossrefVars, runVars,
    sanVars, handlerVars, obpVars>>
notCrossref == <<mergeVars, contribVars, pubVars, seriesVars, runVars,
    sanVars, handlerVars, obpVars>>
notRun == <<mergeVars, contribVars, pubVars, seriesVars, crossrefVars,
    sanVars, handlerVars, obpVars>>
notSan == <<mergeVars, contribVars, pubVars, seriesVars, crossrefVars, runVars,
    handlerVars, obpVars>>
notHandler == <<mergeVars, contribVars, pubVars, seriesVars, crossrefVars,
    runVars, sanVars, obpVars>>
notObp == <<mergeVars, contribVars, pubVars, seriesVars, crossrefVars,
    runVars, sanVars, handlerVars>>

----------------------------------------------------------------------------
(***************************************************************************)
(* Contributor merge.                                                      *)
(***************************************************************************)

\* the keys of a contributor dict once contributorId has been added
ContributorKeys ==
    {"contributorId", "firstName", "lastName", "fullName", "orcid", "website"}

FieldValues == {None, "x", "y"}

\* remote records: Thoth requires lastName and fullName
ThothContributors ==
    [contributorId : {"c1"}, firstName : FieldValues, lastName : {"x", "y"},
     fullName : {"x", "y"}, orcid : FieldValues, website : FieldValues]

\* parsed dicts before contributorId is added
ParsedContributors ==
    [firstName : FieldValues, lastName : FieldValues, fullName : FieldValues,
     orcid : FieldValues, website : FieldValues]

\* contributor["contributorId"] = contributor_id
WithContributorId(contributor, contributor_id) ==
    [k \in ContributorKeys |->
        IF k = "contributorId" THEN contributor_id ELSE contributor[k]]

\* bookloader.py 276-303.  The result is the sequence of update_contributor
\* payloads the call sends (empty or one payload).
check_update_contributor_unchecked(contributor, thoth_contributor) ==
    LET c == WithContributorId(contributor, thoth_contributor.contributorId)
        combined_contributor ==
            [key \in ContributorKeys |->
                IF c[key] # None THEN c[key] ELSE thoth_contributor[key]]
    IN  IF c # thoth_contributor THEN <<combined_contributor>> ELSE <<>>

check_update_contributor(contributor, thoth_contributor) ==
    LET c == WithContributorId(contributor, thoth_contributor.contributorId)
        combined_contributor ==
            [key \in ContributorKeys |->
                IF c[key] # None THEN c[key] ELSE thoth_contributor[key]]
    IN  IF c # thoth_contributor
        THEN IF combined_contributor # thoth_contributor
             THEN <<combined_contributor>> ELSE <<>>
        ELSE <<>>

\* scieloloader.py 101-127
update_scielo_contributor(contributor, thoth_contributor) ==
    LET c == WithContributorId(contributor, thoth_contributor.contributorId)
        combined_contributor ==
            [key \in ContributorKeys |->
                IF c[key] # None THEN c[key] ELSE thoth_contributor[key]]
    IN  IF c # thoth_contributor
        THEN IF combined_contributor # thoth_contributor
             THEN <<combined_contributor>> ELSE <<>>
        ELSE <<>>

\* lharmattanloader.py 209-236
update_lharmattan_contributor(contributor, thoth_contributor) ==
    LET c == WithContributorId(contributor, thoth_contributor.contributorId)
        combined_contributor ==
            [key \in ContributorKeys |->
                IF c[key] # None THEN c[key] ELSE thoth_contributor[key]]
    IN  IF c # thoth_contributor
        THEN IF combined_contributor # thoth_contributor
             THEN <<combined_contributor>> ELSE <<>>
        ELSE <<>>

MergeInit ==
    /\ m_pc = "start"
    /\ m_fn = None
    /\ m_thoth \in ThothContributors
    /\ m_contributor = None
    /\ m_updates = <<>>

MergeIdle ==
    /\ m_pc = "idle"
    /\ m_fn = None
    /\ m_thoth = None
    /\ m_contributor = None
    /\ m_updates = <<>>

CheckUpdateContributor ==
    /\ m_pc = "start"
    /\ \E p \in ParsedContributors :
        /\ m_contributor' = p
        /\ m_updates' = check_update_contributor(p, m_thoth)
    /\ m_fn' = "check_update_contributor"
    /\ m_pc' = "done"
    /\ UNCHANGED <<m_thoth, notMerge>>

UpdateScieloContributor ==
    /\ m_pc = "start"
    /\ \E p \in ParsedContributors :
        /\ m_contributor' = p
        /\ m_updates' = update_scielo_contributor(p, m_thoth)
    /\ m_fn' = "update_scielo_contributor"
    /\ m_pc' = "done"
    /\ UNCHANGED <<m_thoth, notMerge>>

UpdateLharmattanContributor ==
    /\ m_pc = "start"
    /\ \E p \in ParsedContributors :
        /\ m_contributor' = p
        /\ m_updates' = update_lharmattan_contributor(p, m_thoth)
    /\ m_fn' = "update_lharmattan_contributor"
    /\ m_pc' = "done"
    /\ UNCHANGED <<m_thoth, notMerge>>

MergeNext ==
    \/ CheckUpdateContributor
    \/ UpdateScieloContributor
    \/ UpdateLharmattanContributor

\* C1: the merged record takes the parsed value where it is non-null and the
\* remote value where it is null; update_contributor is sent exactly that
\* record when it differs from the remote record, and nothing otherwise.
C1_MergePrefersIncoming ==
    m_pc = "done" =>
        LET merged ==
                [k \in ContributorKeys |->
                    IF k = "contributorId" THEN m_thoth.contributorId
                    ELSE IF m_contributor[k] # None THEN m_contributor[k]
                    ELSE m_thoth[k]]
        IN  /\ merged # m_thoth => m_updates = <<merged>>
            /\ merged = m_thoth => m_updates = <<>>

\* one differing non-null field, the rest null: an update replacing that field
C1_Witness ==
    /\ m_pc = "done"
    /\ m_contributor.website = "y"
    /\ m_thoth.website = "x"
    /\ \A k \in {"firstName", "lastName", "fullName", "orcid"} :
        m_contributor[k] = None
    /\ Len(m_updates) = 1
    /\ m_updates[1] = [m_thoth EXCEPT !.website = "y"]

----------------------------------------------------------------------------
(***************************************************************************)
(* Python string operations, on TLA+ strings.                              *)
(***************************************************************************)

Char(s, i) == SubSeq(s, i, i)

Digits == {"0", "1", "2", "3", "4", "5", "6", "7", "8", "9"}

\* s.startswith(p)
StartsWith(s, p) == Len(s) >= Len(p) /\ SubSeq(s, 1, Len(p)) = p

\* s.find(p) + 1: the first position where p occurs in s, 0 if none
Find(s, p) ==
    LET at == {i \in 1..(Len(s) - Len(p) + 1) : SubSeq(s, i, i + Len(p) - 1) = p}
    IN  IF at = {} THEN 0 ELSE CHOOSE i \in at : \A j \in at : i <= j

RECURSIVE LStrip(_)
LStrip(s) ==
    IF Len(s) > 0 /\ Char(s, 1) = " " THEN LStrip(SubSeq(s, 2, Len(s))) ELSE s

RECURSIVE RStrip(_)
RStrip(s) ==
    IF Len(s) > 0 /\ Char(s, Len(s)) = " "
    THEN RStrip(SubSeq(s, 1, Len(s) - 1)) ELSE s

\* s.strip()
Strip(s) == RStrip(LStrip(s))

\* s.split(c): the list of the pieces between the occurrences of c
RECURSIVE Split(_, _)
Split(s, c) ==
    LET i == Find(s, c)
    IN  IF i = 0 THEN <<s>>
        ELSE <<SubSeq(s, 1, i - 1)>> \o Split(SubSeq(s, i + Len(c), Len(s)), c)

\* s.replace(old, new)
RECURSIVE Replace(_, _, _)
Replace(s, old, new) ==
    LET i == Find(s, old)
    IN  IF i = 0 THEN s
        ELSE SubSeq(s, 1, i - 1) \o new
                \o Replace(SubSeq(s, i + Len(old), Len(s)), old, new)

\* Python truthiness of a string-or-None value
Truthy(v) == v # None /\ v # ""

\* bookloader.py 404-412
sanitise_url(url) ==
    IF ~Truthy(url) THEN None
    ELSE IF StartsWith(url, "https://") THEN url
    ELSE "https://" \o url

\* bookloader.py 429-441
sanitise_identifier(identifier, domain) ==
    IF ~Truthy(identifier) THEN None
    ELSE IF StartsWith(identifier, "https://" \o domain \o ".org/") THEN identifier
    ELSE IF StartsWith(identifier, "http://" \o domain \o ".org/")
         THEN Replace(identifier, "http://", "https://")
    ELSE IF StartsWith(identifier, domain \o ".org/") THEN sanitise_url(identifier)
    ELSE "https://" \o domain \o ".org/" \o identifier

\* bookloader.py 419-422
sanitise_orcid(orcid) == sanitise_identifier(orcid, "orcid")

\* bookloader.py 157-158: orcid_regex matches at position i of s
OrcidRegexAt(s, i) ==
    /\ i + 18 <= Len(s)
    /\ SubSeq(s, i, i + 7) = "0000-000"
    /\ Char(s, i + 9) = "-"
    /\ \/ Char(s, i + 8) = "1" /\ Char(s, i + 10) \in {"5", "6", "7", "8", "9"}
       \/ Char(s, i + 8) = "2" /\ Char(s, i + 10) \in Digits
       \/ Char(s, i + 8) = "3" /\ Char(s, i + 10) \in {"0", "1", "2", "3", "4"}
    /\ \A j \in (i + 11)..(i + 13) : Char(s, j) \in Digits
    /\ Char(s, i + 14) = "-"
    /\ \A j \in (i + 15)..(i + 17) : Char(s, j) \in Digits
    /\ Char(s, i + 18) \in Digits \cup {"X"}

\* orcid_regex.search(s) is not None
OrcidRegexSearch(s) == \E i \in 1..Len(s) : OrcidRegexAt(s, i)

----------------------------------------------------------------------------
(***************************************************************************)
(* create_contributors: identity resolution against all_contributors,      *)
(* creation on a miss, reconciliation on a hit, and the contribution.      *)
(***************************************************************************)

\* the total number of creators in the input file
MaxCreators == 3

\* d[k] = v on a dict
Put(d, k, v) == [x \in DOMAIN d \cup {k} |-> IF x = k THEN v ELSE d[x]]

EmptyDict == [x \in {} |-> 0]

\* the n-th contributorId the remote system hands out
ContributorId(n) == "c" \o ToString(n)

NewContributorId(contributors) == ContributorId(Cardinality(DOMAIN contributors) + 1)

\* the number of contributions in place of the highest ordinal
MaxOrdinalAsCount(contributions) == Len(contributions)

\* max(..., default=0) over the contributionOrdinal of a work's contributions
MaxOrdinal(contributions) ==
    LET ords == {contributions[i].contributionOrdinal : i \in DOMAIN contributions}
    IN  IF ords = {} THEN 0 ELSE CHOOSE m \in ords : \A o \in ords : o <= m

\* bookloader.py 76-120, the entries the inputs use
contribution_types(role) ==
    CASE role = "individual_author" -> "AUTHOR"
      [] role = "organizer" -> "EDITOR"
      [] role = "AUTHOR" -> "AUTHOR"
      [] role = "EDITOR" -> "EDITOR"

\* next(c for c in work.contributions if c.contributor.contributorId == id)
HasContribution(work_contributions, contributor_id) ==
    \E i \in DOMAIN work_contributions :
        work_contributions[i].contributorId = contributor_id

CallEntry(op, r, contributor_id, full_name, orcid, work_id, ordinal) ==
    [op |-> op, run |-> r, contributorId |-> contributor_id,
     fullName |-> full_name, orcid |-> orcid, workId |-> work_id,
     ordinal |-> ordinal]

\* what the loop body knew and decided for one creator
Resolution(ld, r, full_name, orcid, cache, contributor_id, created) ==
    [loader |-> ld, run |-> r, fullName |-> full_name, orcid |-> orcid,
     nameCached |-> full_name \in DOMAIN cache,
     orcidCached |-> Truthy(orcid) /\ orcid \in DOMAIN cache,
     nameId |-> IF full_name \in DOMAIN cache THEN cache[full_name] ELSE None,
     orcidId |-> IF Truthy(orcid) /\ orcid \in DOMAIN cache
                 THEN cache[orcid] ELSE None,
     contributorId |-> contributor_id, created |-> created]

\* --- SciELOLoader.create_contributors, scieloloader.py 18-99

ScieloNames == {"Silva, Ana", "UESC"}

ScieloLinks ==
    {None, "https://orcid.org/0000-0002-1825-0097",
     "http://lattes.cnpq.br/1", "http://lattes.cnpq.br/2"}

\* creator[0][1], creator[1][1], creator[2][1] of a JSON "creators" entry
ScieloCreators ==
    [role : {"individual_author"}, full_name : ScieloNames,
     link_resume : ScieloLinks]
    \cup {[role |-> "individual_author", full_name |-> None, link_resume |-> None]}

\* scieloloader.py 65
ScieloIdentifierNameOnly(orcid_id, full_name) == full_name

ScieloIdentifier(orcid_id, full_name) ==
    IF Truthy(orcid_id) THEN orcid_id ELSE full_name

\* scieloloader.py 73-75
ScieloCacheOrcidOnly(cache, full_name, orcid_id, contributor_id) ==
    IF Truthy(orcid_id) THEN Put(cache, orcid_id, contributor_id) ELSE cache

ScieloCache(cache, full_name, orcid_id, contributor_id) ==
    LET named == Put(cache, full_name, contributor_id)
    IN  IF Truthy(orcid_id) THEN Put(named, orcid_id, contributor_id) ELSE named

\* one iteration of the loop over record["creators"], scieloloader.py 26-99
ScieloCreator(st, creator, work_id, work_contributions, r) ==
    IF ~Truthy(creator.full_name) THEN st
    ELSE
    LET raw == creator.full_name
        comma == Find(raw, ",") # 0
        full_name_inverted == Split(raw, ",")
        name == IF comma THEN Strip(full_name_inverted[2]) ELSE raw
        surname == IF comma THEN full_name_inverted[1] ELSE raw
        full_name == IF comma THEN name \o " " \o surname ELSE raw
        contribution_type == contribution_types(creator.role)
        profile_link == creator.link_resume
        is_orcid == Truthy(profile_link) /\ OrcidRegexSearch(profile_link)
        orcid_id == IF is_orcid THEN profile_link ELSE None
        website == IF Truthy(profile_link) /\ ~is_orcid THEN profile_link ELSE None
        contributor ==
            [firstName |-> name, lastName |-> surname, fullName |-> full_name,
             orcid |-> orcid_id, website |-> website]
        identifier == ScieloIdentifier(orcid_id, full_name)
        miss == identifier \notin DOMAIN st.all_contributors
        contributor_id ==
            IF miss THEN NewContributorId(st.thoth_contributors)
            ELSE st.all_contributors[identifier]
        updates ==
            IF miss THEN <<>>
            ELSE update_scielo_contributor(
                    contributor, st.thoth_contributors[contributor_id])
        contributors1 ==
            IF miss
            THEN Put(st.thoth_contributors, contributor_id,
                     WithContributorId(contributor, contributor_id))
            ELSE IF updates # <<>>
            THEN [st.thoth_contributors EXCEPT ![contributor_id] = updates[1]]
            ELSE st.thoth_contributors
        cache1 ==
            IF miss
            THEN ScieloCache(st.all_contributors, full_name, orcid_id, contributor_id)
            ELSE st.all_contributors
        calls1 ==
            IF miss
            THEN Append(st.calls, CallEntry("create_contributor", r, contributor_id,
                                            full_name, orcid_id, 0, 0))
            ELSE IF updates # <<>>
            THEN Append(st.calls, CallEntry("update_contributor", r, contributor_id,
                                            full_name, orcid_id, 0, 0))
            ELSE st.calls
        existing_contribution == HasContribution(work_contributions, contributor_id)
        ordinal == st.highest_contribution_ordinal + 1
    IN  [all_contributors |-> cache1,
         thoth_contributors |-> contributors1,
         contributions |->
            IF existing_contribution THEN st.contributions
            ELSE Append(st.contributions,
                        [contributorId |-> contributor_id,
                         contributionType |-> contribution_type,
                         contributionOrdinal |-> ordinal]),
         highest_contribution_ordinal |->
            IF existing_contribution THEN st.highest_contribution_ordinal
            ELSE ordinal,
         calls |->
            IF existing_contribution THEN calls1
            ELSE Append(calls1, CallEntry("create_contribution", r, contributor_id,
                                          full_name, orcid_id, work_id, ordinal)),
         resolutions |->
            Append(st.resolutions,
                   Resolution("scielo", r, full_name, orcid_id, st.all_contributors,
                              contributor_id, miss))]

RECURSIVE ScieloLoop(_, _, _, _, _, _)
ScieloLoop(st, creators, i, work_id, work_contributions, r) ==
    IF i > Len(creators) THEN st
    ELSE ScieloLoop(ScieloCreator(st, creators[i], work_id, work_contributions, r),
                    creators, i + 1, work_id, work_contributions, r)

\* --- UbiquityPressesLoader.create_contributors, ubiquityloader.py 165-227

UbiquityOrcids ==
    {"", "0000-0002-1825-0097", "https://orcid.org/0000-0002-1694-233X"}

\* the fields of one entry of the "contributions" CSV column
UbiquityContributions ==
    {[contribution_type |-> "author", first_name |-> n[1], last_name |-> n[2],
      full_name |-> n[3], is_main |-> "true", biography |-> "",
      orcid |-> o, website |-> ""] :
        n \in {<<"Ana", "Silva", "Ana Silva">>, <<"Bo", "Li", "Bo Li">>},
        o \in UbiquityOrcids}

\* .upper() of the contribution types the inputs use
Upper(t) ==
    CASE t = "author" -> "AUTHOR"
      [] t = "editor" -> "EDITOR"
      [] OTHER -> t

\* ubiquityloader.py 192-196: the cached contributorId, or None on a miss
UbiquityResolveOrcidOnly(cache, orcid, full_name) ==
    IF Truthy(orcid) THEN (IF orcid \in DOMAIN cache THEN cache[orcid] ELSE None)
    ELSE IF full_name \in DOMAIN cache THEN cache[full_name]
    ELSE None

UbiquityResolve(cache, orcid, full_name) ==
    IF Truthy(orcid) /\ orcid \in DOMAIN cache THEN cache[orcid]
    ELSE IF full_name \in DOMAIN cache THEN cache[full_name]
    ELSE None

\* ubiquityloader.py 206-208
UbiquityCacheOrcidOnly(cache, full_name, orcid, contributor_id) ==
    IF Truthy(orcid) THEN Put(cache, orcid, contributor_id) ELSE cache

UbiquityCache(cache, full_name, orcid, contributor_id) ==
    LET named == Put(cache, full_name, contributor_id)
    IN  IF Truthy(orcid) THEN Put(named, orcid, contributor_id) ELSE named

\* one iteration of the loop over the contributions, ubiquityloader.py 179-227
UbiquityContribution(st, c, work_id, work_contributions, r) ==
    LET contribution_type == contribution_types(Upper(c.contribution_type))
        orcid == sanitise_orcid(c.orcid)
        cached == UbiquityResolve(st.all_contributors, orcid, c.full_name)
        miss == cached = None
        contributor_id ==
            IF miss THEN NewContributorId(st.thoth_contributors) ELSE cached
        contributor ==
            [firstName |-> c.first_name, lastName |-> c.last_name,
             fullName |-> c.full_name, orcid |-> orcid, website |-> c.website]
        calls1 ==
            IF miss
            THEN Append(st.calls, CallEntry("create_contributor", r, contributor_id,
                                            c.full_name, orcid, 0, 0))
            ELSE st.calls
        existing_contribution == HasContribution(work_contributions, contributor_id)
        ordinal == st.highest_contribution_ordinal + 1
    IN  [all_contributors |->
            IF miss
            THEN UbiquityCache(st.all_contributors, c.full_name, orcid, contributor_id)
            ELSE st.all_contributors,
         thoth_contributors |->
            IF miss
            THEN Put(st.thoth_contributors, contributor_id,
                     WithContributorId(contributor, contributor_id))
            ELSE st.thoth_contributors,
         contributions |->
            IF existing_contribution THEN st.contributions
            ELSE Append(st.contributions,
                        [contributorId |-> contributor_id,
                         contributionType |-> contribution_type,
                         contributionOrdinal |-> ordinal]),
         highest_contribution_ordinal |->
            IF existing_contribution THEN st.highest_contribution_ordinal
            ELSE ordinal,
         calls |->
            IF existing_contribution THEN calls1
            ELSE Append(calls1, CallEntry("create_contribution", r, contributor_id,
                                          c.full_name, orcid, work_id, ordinal)),
         resolutions |->
            Append(st.resolutions,
                   Resolution("ubiquity", r, c.full_name, orcid, st.all_contributors,
                              contributor_id, miss))]

RECURSIVE UbiquityLoop(_, _, _, _, _, _)
UbiquityLoop(st, contributions, i, work_id, work_contributions, r) ==
    IF i > Len(contributions) THEN st
    ELSE UbiquityLoop(
            UbiquityContribution(st, contributions[i], work_id, work_contributions, r),
            contributions, i + 1, work_id, work_contributions, r)

\* --- the runs

\* the lists of 1..n elements of S
SeqsUpTo(S, n) == UNION {[1..k -> S] : k \in 1..n}

RECURSIVE TotalCreators(_)
TotalCreators(records) ==
    IF records = <<>> THEN 0
    ELSE Len(Head(records)) + TotalCreators(Tail(records))

ContribInit ==
    /\ loader \in {"scielo", "ubiquity"}
    /\ all_contributors = EmptyDict
    /\ thoth_contributors = EmptyDict
    /\ thoth_contributions = <<>>
    /\ data = <<>>
    /\ run = 1
    /\ pos = 0
    /\ calls = <<>>
    /\ resolutions = <<>>

ContribIdle ==
    /\ loader = None
    /\ all_contributors = EmptyDict
    /\ thoth_contributors = EmptyDict
    /\ thoth_contributions = <<>>
    /\ data = <<>>
    /\ run = 0
    /\ pos = 0
    /\ calls = <<>>
    /\ resolutions = <<>>

\* the loop state create_contributors starts from for the work work_id
LoopStart(work_contributions) ==
    [all_contributors |-> all_contributors,
     thoth_contributors |-> thoth_contributors,
     contributions |-> work_contributions,
     highest_contribution_ordinal |-> MaxOrdinal(work_contributions),
     calls |-> calls,
     resolutions |-> resolutions]

\* the remote and local state create_contributors leaves behind
LoopEnd(st, work_id) ==
    /\ all_contributors' = st.all_contributors
    /\ thoth_contributors' = st.thoth_contributors
    /\ thoth_contributions' =
            IF work_id > Len(thoth_contributions)
            THEN Append(thoth_contributions, st.contributions)
            ELSE [thoth_contributions EXCEPT ![work_id] = st.contributions]
    /\ calls' = st.calls
    /\ resolutions' = st.resolutions

\* first run: SciELOLoader.create_contributors(record, work) on the work the
\* run has just created for the next record of the file
ScieloCreateContributors ==
    /\ loader = "scielo"
    /\ run = 1
    /\ TotalCreators(data) < MaxCreators
    /\ \E creators \in SeqsUpTo(ScieloCreators, MaxCreators - TotalCreators(data)) :
        LET work_id == Len(data) + 1
        IN  /\ LoopEnd(ScieloLoop(LoopStart(<<>>), creators, 1, work_id, <<>>, 1),
                       work_id)
            /\ data' = Append(data, creators)
    /\ UNCHANGED <<loader, run, pos, notContrib>>

UbiquityCreateContributors ==
    /\ loader = "ubiquity"
    /\ run = 1
    /\ TotalCreators(data) < MaxCreators
    /\ \E contributions \in
            SeqsUpTo(UbiquityContributions, MaxCreators - TotalCreators(data)) :
        LET work_id == Len(data) + 1
        IN  /\ LoopEnd(UbiquityLoop(LoopStart(<<>>), contributions, 1, work_id,
                                     <<>>, 1),
                       work_id)
            /\ data' = Append(data, contributions)
    /\ UNCHANGED <<loader, run, pos, notContrib>>

\* the loader is run again on the same file
StartSecondRun ==
    /\ run = 1
    /\ data # <<>>
    /\ run' = 2
    /\ pos' = 0
    /\ UNCHANGED <<loader, all_contributors, thoth_contributors,
                   thoth_contributions, data, calls, resolutions, notContrib>>

\* second run: the work of the record exists and is fetched with its contributions
ScieloRerunContributors ==
    /\ loader = "scielo"
    /\ run = 2
    /\ pos < Len(data)
    /\ LET work_id == pos + 1
           work_contributions == thoth_contributions[work_id]
       IN  LoopEnd(ScieloLoop(LoopStart(work_contributions), data[work_id], 1,
                              work_id, work_contributions, 2),
                   work_id)
    /\ pos' = pos + 1
    /\ UNCHANGED <<loader, run, data, notContrib>>

UbiquityRerunContributors ==
    /\ loader = "ubiquity"
    /\ run = 2
    /\ pos < Len(data)
    /\ LET work_id == pos + 1
           work_contributions == thoth_contributions[work_id]
       IN  LoopEnd(UbiquityLoop(LoopStart(work_contributions), data[work_id], 1,
                                work_id, work_contributions, 2),
                   work_id)
    /\ pos' = pos + 1
    /\ UNCHANGED <<loader, run, data, notContrib>>

ContribNext ==
    \/ ScieloCreateContributors
    \/ UbiquityCreateContributors
    \/ StartSecondRun
    \/ ScieloRerunContributors
    \/ UbiquityRerunContributors

CreateContributorCalls ==
    {i \in DOMAIN calls : calls[i].op = "create_contributor"}

C3_CreateOncePerContributor ==
    /\ \A i, j \in CreateContributorCalls :
            (calls[i].fullName = calls[j].fullName /\ calls[i].orcid = calls[j].orcid)
                => i = j
    /\ \A i, j \in DOMAIN resolutions :
            (/\ i < j
             /\ resolutions[i].fullName = resolutions[j].fullName
             /\ resolutions[i].orcid = resolutions[j].orcid)
                => (/\ ~resolutions[j].created
                    /\ resolutions[j].contributorId
                            \in {resolutions[j].nameId, resolutions[j].orcidId})

\* a contributor with an ORCID occurs twice; the second occurrence is a hit
C3_Witness ==
    \E i, j \in DOMAIN resolutions :
        /\ i < j
        /\ resolutions[i].fullName = resolutions[j].fullName
        /\ resolutions[i].orcid = resolutions[j].orcid
        /\ Truthy(resolutions[i].orcid)
        /\ resolutions[i].created
        /\ ~resolutions[j].created
        /\ resolutions[j].contributorId = resolutions[i].contributorId

ScieloResolutions ==
    {i \in DOMAIN resolutions : resolutions[i].loader = "scielo"}

\* C4 as stated: SciELOLoader creates a contributor only when neither the ORCID
\* nor the full name is cached, and falls back to the cached full name when the
\* ORCID is not cached.
C4_CreateOnlyWhenNeitherCached ==
    \A i \in ScieloResolutions :
        LET r == resolutions[i]
        IN  /\ r.created => (~r.orcidCached /\ ~r.nameCached)
            /\ (Truthy(r.orcid) /\ ~r.orcidCached /\ r.nameCached)
                    => r.contributorId = r.nameId

\* C4 as amended: SciELOLoader decides by one identifier, the ORCID when the
\* creator carries one and the full name otherwise: create_contributor is
\* called exactly when that identifier is not a key of all_contributors (also
\* when the full name of a creator with an uncached ORCID is cached), and a
\* cached identifier resolves to the contributorId stored under it.
C4_CreateIffIdentifierNotCached ==
    \A i \in ScieloResolutions :
        LET r == resolutions[i]
        IN  IF Truthy(r.orcid)
            THEN /\ r.created = ~r.orcidCached
                 /\ r.orcidCached => r.contributorId = r.orcidId
            ELSE /\ r.created = ~r.nameCached
                 /\ r.nameCached => r.contributorId = r.nameId

\* a creator with an uncached ORCID and a cached full name is created anew
C4_Witness ==
    \E i \in ScieloResolutions :
        /\ Truthy(resolutions[i].orcid)
        /\ ~resolutions[i].orcidCached
        /\ resolutions[i].nameCached
        /\ resolutions[i].created
        /\ resolutions[i].contributorId # resolutions[i].nameId

\* C5: in the ORCID-aware loaders two incoming contributors with different
\* ORCIDs are never resolved to the same contributorId.
C5_DifferentOrcidsDifferentContributors ==
    \A i, j \in DOMAIN resolutions :
        (/\ resolutions[i].loader = "ubiquity"
         /\ resolutions[j].loader = "ubiquity"
         /\ Truthy(resolutions[i].orcid)
         /\ Truthy(resolutions[j].orcid)
         /\ resolutions[i].orcid # resolutions[j].orcid)
            => resolutions[i].contributorId # resolutions[j].contributorId

----------------------------------------------------------------------------
(***************************************************************************)
(* UbiquityPressesLoader.create_publications for one publication of the    *)
(* row: the publication, its prices, and its locations.  The remote system *)
(* is a plain store: it keeps what it is sent.                             *)
(***************************************************************************)

\* the total number of incoming locations over all rows
MaxLocations == 3

\* the lists of 0..n elements of S
ListsUpTo(S, n) == {<<>>} \cup SeqsUpTo(S, n)

\* the fields of one entry of the locations list of a publication
LocationInputs ==
    {[landing_page |-> "a.org/1", full_text_url |-> "", platform |-> "OTHER",
      is_canonical |-> c] : c \in {"true", "false"}}
    \cup {[landing_page |-> "https://a.org/2", full_text_url |-> "",
            platform |-> "OTHER", is_canonical |-> c] : c \in {"true", "false"}}
    \cup {[landing_page |-> "https://p.org/3", full_text_url |-> "",
            platform |-> "PUBLISHER_WEBSITE", is_canonical |-> c] :
                c \in {"true", "false"}}

\* the prices list of a publication
PriceInputs ==
    {<<>>,
     <<[currency_code |-> "GBP", unit_price |-> "0.00"]>>,
     <<[currency_code |-> "USD", unit_price |-> "$12.50"]>>}

\* float(s) succeeds: digits with at most one decimal point
IsDecimal(s) ==
    /\ \E i \in 1..Len(s) : Char(s, i) \in Digits
    /\ \A i \in 1..Len(s) : Char(s, i) \in Digits \cup {"."}
    /\ Cardinality({i \in 1..Len(s) : Char(s, i) = "."}) <= 1

\* bookloader.py 443-449: the cleaned numeral, or None when float() raises
sanitise_price(price) ==
    LET cleaned == Strip(Replace(price, "$", ""))
    IN  IF IsDecimal(cleaned) THEN cleaned ELSE None

\* ubiquityloader.py 348: unit_price and (unit_price != 0.0)
NonZeroPrice(unit_price) ==
    /\ unit_price # None
    /\ \E i \in 1..Len(unit_price) : Char(unit_price, i) \in Digits \ {"0"}

\* ubiquityloader.py 342-354: the create_price calls of one publication
RECURSIVE PriceCalls(_)
PriceCalls(prices) ==
    IF prices = <<>> THEN <<>>
    ELSE LET price == Head(prices)
             unit_price == sanitise_price(price.unit_price)
         IN  (IF NonZeroPrice(unit_price)
              THEN <<[op |-> "create_price", currencyCode |-> price.currency_code,
                      unitPrice |-> unit_price]>>
              ELSE <<>>) \o PriceCalls(Tail(prices))

\* ubiquityloader.py 369-376: the incoming location is skipped
SkipLocation(found, locations, platform, landing_page, full_text_url) ==
    /\ found
    /\ \E i \in DOMAIN locations : locations[i].locationPlatform = platform
    /\ platform = "OTHER" =>
            \E i \in DOMAIN locations :
                /\ locations[i].landingPage = landing_page
                /\ locations[i].fullTextUrl = full_text_url

\* ubiquityloader.py 378-380
CanonicalFlag(kept, is_canonical) ==
    IF kept # <<>> THEN "false" ELSE is_canonical

\* ubiquityloader.py 360-393: the loop that stores up the incoming locations;
\* acc = [canonical |-> <<>> or <<location>>, others |-> locations]
RECURSIVE StoreLocations(_, _, _, _)
StoreLocations(acc, locations, found, existing) ==
    IF locations = <<>> THEN acc
    ELSE
    LET l == Head(locations)
        landing_page == sanitise_url(Strip(l.landing_page))
        full_text_url == sanitise_url(Strip(l.full_text_url))
        platform == Strip(l.platform)
        is_canonical == CanonicalFlag(acc.canonical, Strip(l.is_canonical))
        location ==
            [landingPage |-> landing_page, fullTextUrl |-> full_text_url,
             locationPlatform |-> platform, canonical |-> is_canonical]
        acc1 ==
            IF SkipLocation(found, existing, platform, landing_page, full_text_url)
            THEN acc
            ELSE IF is_canonical = "true"
            THEN [acc EXCEPT !.canonical = <<location>>]
            ELSE [acc EXCEPT !.others = Append(@, location)]
    IN  StoreLocations(acc1, Tail(locations), found, existing)

\* the remote effect of create_location
CreateLocation(locations, id, location) ==
    Append(locations,
           [locationId |-> id, landingPage |-> location.landingPage,
            fullTextUrl |-> location.fullTextUrl,
            locationPlatform |-> location.locationPlatform,
            canonical |-> location.canonical])

\* the remote effect of delete_location
DeleteLocation(locations, id) ==
    SelectSeq(locations, LAMBDA l : l.locationId # id)

LocationCall(op, id, location) ==
    [op |-> op, locationId |-> id, landingPage |-> location.landingPage,
     fullTextUrl |-> location.fullTextUrl,
     locationPlatform |-> location.locationPlatform,
     canonical |-> location.canonical]

\* ubiquityloader.py 401-407
ReplacementLocationAsListed(existing_location) ==
    [landingPage |-> existing_location.landingPage,
     fullTextUrl |-> existing_location.fullTextUrl,
     locationPlatform |-> existing_location.locationPlatform,
     canonical |-> existing_location.canonical]

ReplacementLocation(existing_location) ==
    [landingPage |-> existing_location.landingPage,
     fullTextUrl |-> existing_location.fullTextUrl,
     locationPlatform |-> existing_location.locationPlatform,
     canonical |-> "false"]

\* ubiquityloader.py 412-420: no new canonical location, and no existing
\* location to be the canonical one, so the first stored one is made canonical
PromoteFirstWhateverExists(stored, found, existing) ==
    /\ stored.canonical = <<>>
    /\ Len(stored.others) > 0

PromoteFirst(stored, found, existing) ==
    /\ stored.canonical = <<>>
    /\ ~found \/ Len(existing) < 1
    /\ Len(stored.others) > 0

PubInit ==
    /\ p_pc = "idle"
    /\ thoth_publication = FALSE
    /\ thoth_locations = <<>>
    /\ next_location_id = 1
    /\ existing_pub = FALSE
    /\ existing_locations = <<>>
    /\ new_canonical_location = <<>>
    /\ new_non_canonical_locations = <<>>
    /\ p_i = 0
    /\ p_calls = <<>>
    /\ p_used = 0
    /\ p_row = [prices |-> <<>>, locations |-> <<>>]
    /\ p_run = 0

PubIdle ==
    /\ p_pc = "off"
    /\ thoth_publication = FALSE
    /\ thoth_locations = <<>>
    /\ next_location_id = 1
    /\ existing_pub = FALSE
    /\ existing_locations = <<>>
    /\ new_canonical_location = <<>>
    /\ new_non_canonical_locations = <<>>
    /\ p_i = 0
    /\ p_calls = <<>>
    /\ p_used = 0
    /\ p_row = [prices |-> <<>>, locations |-> <<>>]
    /\ p_run = 0

\* ubiquityloader.py 306-421 up to the first location call, for the prices
\* and locations of one publication: the work was fetched just before, so
\* existing_pub is the remote publication as it is now
BeginPublication(prices, locations) ==
    LET found == thoth_publication
        existing == IF found THEN thoth_locations ELSE <<>>
        stored == StoreLocations([canonical |-> <<>>, others |-> <<>>],
                                 locations, found, existing)
        swap == stored.canonical # <<>> /\ found /\ Len(existing) > 0
        promote == PromoteFirst(stored, found, existing)
    IN  /\ existing_pub' = found
        /\ existing_locations' = existing
        /\ p_calls' =
                (IF found THEN <<>> ELSE <<[op |-> "create_publication"]>>)
                    \o PriceCalls(prices)
        /\ new_canonical_location' =
                IF promote
                THEN <<[Head(stored.others) EXCEPT !.canonical = "true"]>>
                ELSE stored.canonical
        /\ new_non_canonical_locations' =
                IF promote THEN Tail(stored.others) ELSE stored.others
        /\ p_pc' = IF swap THEN "delete" ELSE "canonical"
        /\ p_i' = 1
        /\ thoth_publication' = TRUE
        /\ UNCHANGED <<thoth_locations, next_location_id, notPub>>

\* ubiquityloader.py 16-44, 279-421: a row of the CSV is read
StorePublication ==
    /\ p_pc \in {"idle", "done"}
    /\ p_used < MaxLocations
    /\ \E prices \in PriceInputs,
          locations \in ListsUpTo(LocationInputs, MaxLocations - p_used) :
        /\ BeginPublication(prices, locations)
        /\ p_row' = [prices |-> prices, locations |-> locations]
        /\ p_used' = p_used + (IF Len(locations) = 0 THEN 1 ELSE Len(locations))
    /\ p_run' = 1

\* ubiquityloader.py 16-44, 279-421: the loader is run again over the
\* unchanged CSV, whose row is read again
RerunPublication ==
    /\ p_pc = "done"
    /\ p_run = 1
    /\ BeginPublication(p_row.prices, p_row.locations)
    /\ p_run' = 2
    /\ UNCHANGED <<p_row, p_used>>

\* ubiquityloader.py 400-411, one iteration
DeleteExistingLocation ==
    /\ p_pc = "delete"
    /\ LET existing_location == existing_locations[p_i]
           replacement_location == ReplacementLocation(existing_location)
       IN  /\ new_non_canonical_locations' =
                    Append(new_non_canonical_locations, replacement_location)
           /\ thoth_locations' =
                    DeleteLocation(thoth_locations, existing_location.locationId)
           /\ p_calls' =
                    Append(p_calls,
                           LocationCall("delete_location",
                                        existing_location.locationId,
                                        existing_location))
    /\ p_i' = IF p_i = Len(existing_locations) THEN 1 ELSE p_i + 1
    /\ p_pc' = IF p_i = Len(existing_locations) THEN "canonical" ELSE "delete"
    /\ UNCHANGED <<thoth_publication, next_location_id, existing_pub,
                   existing_locations, new_canonical_location, p_used, p_row,
                   p_run, notPub>>

\* ubiquityloader.py 422-423
CreateCanonicalLocation ==
    /\ p_pc = "canonical"
    /\ IF new_canonical_location # <<>>
       THEN /\ thoth_locations' =
                    CreateLocation(thoth_locations, next_location_id,
                                   new_canonical_location[1])
            /\ p_calls' =
                    Append(p_calls,
                           LocationCall("create_location", next_location_id,
                                        new_canonical_location[1]))
            /\ next_location_id' = next_location_id + 1
       ELSE UNCHANGED <<thoth_locations, p_calls, next_location_id>>
    /\ p_pc' = "others"
    /\ p_i' = 1
    /\ UNCHANGED <<thoth_publication, existing_pub, existing_locations,
                   new_canonical_location, new_non_canonical_locations, p_used,
                   p_row, p_run, notPub>>

\* ubiquityloader.py 425-426, one iteration
CreateNonCanonicalLocation ==
    /\ p_pc = "others"
    /\ p_i <= Len(new_non_canonical_locations)
    /\ LET new_location == new_non_canonical_locations[p_i]
       IN  /\ thoth_locations' =
                    CreateLocation(thoth_locations, next_location_id, new_location)
           /\ p_calls' =
                    Append(p_calls,
                           LocationCall("create_location", next_location_id,
                                        new_location))
    /\ next_location_id' = next_location_id + 1
    /\ p_i' = p_i + 1
    /\ UNCHANGED <<p_pc, thoth_publication, existing_pub, existing_locations,
                   new_canonical_location, new_non_canonical_locations, p_used,
                   p_row, p_run, notPub>>

\* the loop of 425-426 ends
FinishPublication ==
    /\ p_pc = "others"
    /\ p_i > Len(new_non_canonical_locations)
    /\ p_pc' = "done"
    /\ UNCHANGED <<thoth_publication, thoth_locations, next_location_id,
                   existing_pub, existing_locations, new_canonical_location,
                   new_non_canonical_locations, p_i, p_calls, p_used, p_row,
                   p_run, notPub>>

PubNext ==
    \/ StorePublication
    \/ RerunPublication
    \/ DeleteExistingLocation
    \/ CreateCanonicalLocation
    \/ CreateNonCanonicalLocation
    \/ FinishPublication

\* the locations of a list that are marked canonical
Canonicals(locations) ==
    {i \in DOMAIN locations : locations[i].canonical = "true"}

\* the remote locations are empty or hold exactly one canonical location
OneCanonical(locations) ==
    locations = <<>> \/ Cardinality(Canonicals(locations)) = 1

\* the delete_location and create_location calls of the current call
LocationCalls ==
    SelectSeq(p_calls,
              LAMBDA c : c.op \in {"delete_location", "create_location"})

\* the current call has swapped the canonical location of a publication
\* that already had locations, and is over
Swapped ==
    /\ p_pc = "done"
    /\ existing_pub
    /\ existing_locations # <<>>
    /\ \E i \in DOMAIN p_calls : p_calls[i].op = "delete_location"

\* call c re-creates the existing location e as a non-canonical location
Recreates(c, e) ==
    /\ c.op = "create_location"
    /\ c.canonical = "false"
    /\ c.landingPage = e.landingPage
    /\ c.fullTextUrl = e.fullTextUrl
    /\ c.locationPlatform = e.locationPlatform

\* C6: after create_publications has processed a publication whose remote
\* locations were empty or held exactly one canonical location, its remote
\* locations are empty or hold exactly one canonical location, whatever the
\* incoming locations and their "true"/"false" flags
C6_OneCanonicalAfterPublication ==
    (p_pc = "done" /\ (~existing_pub \/ OneCanonical(existing_locations)))
        => OneCanonical(thoth_locations)

\* the canonical location of a publication with two locations was swapped
C6_Witness ==
    /\ Swapped
    /\ Len(existing_locations) = 2
    /\ OneCanonical(existing_locations)
    /\ Len(thoth_locations) = 3
    /\ thoth_locations[1].canonical = "true"

\* the remote calls that add or remove something
WriteCalls ==
    {"create_work", "create_contributor", "create_contribution",
     "create_affiliation", "create_publication", "create_price",
     "create_location", "create_language", "create_subject",
     "create_work_relation", "delete_location"}

\* C11: read again from the unchanged CSV, against the remote state the first
\* run left, a row's publication issues no create call and no delete_location
\* call
C11_SecondRunCreatesNothing ==
    p_run = 2 => \A i \in DOMAIN p_calls : p_calls[i].op \notin WriteCalls

\* C7 as stated: in a swap every existing location is deleted and re-created
\* as non-canonical before the create_location call of the new canonical
\* location
C7_RecreatedBeforeCanonical ==
    Swapped =>
        \A k \in DOMAIN LocationCalls :
            (LocationCalls[k].op = "create_location"
             /\ LocationCalls[k].canonical = "true") =>
                \A i \in DOMAIN existing_locations :
                    /\ \E d \in 1..(k - 1) :
                         /\ LocationCalls[d].op = "delete_location"
                         /\ LocationCalls[d].locationId =
                                existing_locations[i].locationId
                    /\ \E r \in 1..(k - 1) :
                         Recreates(LocationCalls[r], existing_locations[i])

\* C7 as the code has it: in a swap the calls are, in this order, one
\* delete_location per existing location, the create_location of the new
\* canonical location, the create_location of each incoming non-canonical
\* location, and the create_location of each existing location as a
\* non-canonical one
C7_DeletedBeforeRecreatedAfterCanonical ==
    Swapped =>
        LET n == Len(existing_locations)
            total == Len(LocationCalls)
        IN  /\ total >= 2 * n + 1
            /\ \A i \in 1..n :
                 /\ LocationCalls[i].op = "delete_location"
                 /\ LocationCalls[i].locationId = existing_locations[i].locationId
                 /\ Recreates(LocationCalls[total - n + i], existing_locations[i])
            /\ LocationCalls[n + 1].op = "create_location"
            /\ LocationCalls[n + 1].canonical = "true"
            /\ \A k \in (n + 2)..total :
                 /\ LocationCalls[k].op = "create_location"
                 /\ LocationCalls[k].canonical = "false"

\* a swap over two existing locations
C7_Witness ==
    /\ Swapped
    /\ Len(existing_locations) = 2
    /\ Len(LocationCalls) = 5

\* C21: during create_publications on a publication whose remote locations
\* were empty or held exactly one canonical location, after every single
\* delete_location or create_location call the remote locations are empty or
\* hold exactly one canonical location
C21_OneCanonicalAfterEveryCall ==
    (~existing_pub \/ OneCanonical(existing_locations))
        => OneCanonical(thoth_locations)

----------------------------------------------------------------------------
(***************************************************************************)
(* create_series of LHarmattanLoader and of UbiquityAPILoader, for one     *)
(* series name.  Both loaders fill all_series from every series of the     *)
(* catalogue (bookloader.py 199-203), so a series is found by its name     *)
(* whichever loader created it.                                            *)
(***************************************************************************)

\* the number of create_series calls
MaxRecords == 3

\* the works the records are about
Works == 1..MaxRecords

\* the series_number values of a record
SeriesNumbers == {None, "2", "3"}

\* the scs023_issn values of a row
RowIssns == {"", "12345678", "1234-5678", "123"}

SeriesName == "Studies"

\* int() of a string of digits
RECURSIVE ParseInt(_)
ParseInt(str) ==
    IF str = "" THEN 0
    ELSE LET d == Char(str, Len(str))
             v == CHOOSE n \in 0..9 : ToString(n) = d
         IN  10 * ParseInt(SubSeq(str, 1, Len(str) - 1)) + v

\* bookloader.py 391-402; "ValueError" stands for the exception raised
sanitise_issn_unchecked(issn) ==
    IF issn = "" \/ issn = None THEN None
    ELSE IF Find(issn, "-") > 0 THEN issn
    ELSE SubSeq(issn, 1, IF Len(issn) < 4 THEN Len(issn) ELSE 4)
            \o "-" \o SubSeq(issn, 5, Len(issn))

sanitise_issn(issn) ==
    IF issn = "" \/ issn = None THEN None
    ELSE LET hyphenated_issn ==
                 IF Find(issn, "-") > 0 THEN issn
                 ELSE SubSeq(issn, 1, IF Len(issn) < 4 THEN Len(issn) ELSE 4)
                        \o "-" \o SubSeq(issn, 5, Len(issn))
         IN  IF Len(hyphenated_issn) # 9 THEN "ValueError" ELSE hyphenated_issn

\* the issueOrdinal values of a list of issues
Ordinals(issues) == {issues[i].issueOrdinal : i \in DOMAIN issues}

\* max(..., default=0)
MaxOf(S) == IF S = {} THEN 0 ELSE CHOOSE n \in S : \A k \in S : k <= n

\* the issues of a work
IssuesOf(issues, work_id) == SelectSeq(issues, LAMBDA i : i.workId = work_id)

\* lharmattanloader.py 353-363
LHarmattanOrdinal(issues) == Len(issues) + 1

\* ubiquityapiloader.py 339-347
UbiquityApiOrdinal(series_number, new_series, issues) ==
    IF series_number # None THEN ParseInt(series_number)
    ELSE IF new_series THEN 1
    ELSE MaxOf(Ordinals(issues)) + 1

SeriesInit ==
    /\ all_series = EmptyDict
    /\ thoth_issues = <<>>
    /\ s_loader = None
    /\ s_series_number = None
    /\ s_row = None
    /\ s_issues = <<>>
    /\ s_calls = <<>>
    /\ s_outcome = "idle"
    /\ s_used = 0

SeriesIdle ==
    /\ all_series = EmptyDict
    /\ thoth_issues = <<>>
    /\ s_loader = None
    /\ s_series_number = None
    /\ s_row = None
    /\ s_issues = <<>>
    /\ s_calls = <<>>
    /\ s_outcome = "off"
    /\ s_used = 0

\* what a create_series call leaves behind
SeriesCall(ld, series_number, issued, outcome) ==
    /\ s_loader' = ld
    /\ s_series_number' = series_number
    /\ s_issues' = thoth_issues
    /\ s_calls' = issued
    /\ s_outcome' = outcome
    /\ s_used' = s_used + 1
    /\ thoth_issues' =
            thoth_issues \o
            SelectSeq([i \in DOMAIN issued |->
                          IF issued[i].op = "create_issue"
                          THEN [workId |-> issued[i].workId,
                                issueOrdinal |-> issued[i].issueOrdinal]
                          ELSE [workId |-> 0, issueOrdinal |-> 0]],
                      LAMBDA i : i.workId # 0)
    /\ all_series' =
            IF \E i \in DOMAIN issued : issued[i].op = "create_series"
            THEN Put(all_series, SeriesName, "s1")
            ELSE all_series

\* lharmattanloader.py 315-367
LHarmattanCreateSeries ==
    /\ s_used < MaxRecords
    /\ \E series_name \in {"", SeriesName}, series_issn \in RowIssns,
          work_id \in Works :
        LET cached == series_name \in DOMAIN all_series
            issn == sanitise_issn(series_issn)
            create == IF cached THEN <<>>
                      ELSE <<[op |-> "create_series", issnDigital |-> issn]>>
            issue == IF IssuesOf(thoth_issues, work_id) = <<>>
                     THEN <<[op |-> "create_issue", workId |-> work_id,
                             issueOrdinal |-> LHarmattanOrdinal(thoth_issues)]>>
                     ELSE <<>>
        IN  /\ s_row' = [series_name |-> series_name, series_issn |-> series_issn,
                         cached |-> cached]
            /\ IF series_issn = "" \/ series_name = ""
               THEN SeriesCall("lharmattan", None, <<>>, "skipped")
               ELSE IF ~cached /\ issn = "ValueError"
               THEN SeriesCall("lharmattan", None, <<>>, "UnboundLocalError")
               ELSE IF ~cached /\ issn = None
               THEN SeriesCall("lharmattan", None, <<>>, "skipped")
               ELSE SeriesCall("lharmattan", None, create \o issue, "done")
    /\ UNCHANGED notSeries

\* ubiquityapiloader.py 299-355
UbiquityApiCreateSeries ==
    /\ s_used < MaxRecords
    /\ \E series \in {None, SeriesName}, record_issn \in {"XXXX-XXXX", "1234-5678"},
          series_number \in SeriesNumbers, work_id \in Works :
        LET new_series == series \notin DOMAIN all_series
            issn == IF record_issn # "XXXX-XXXX" THEN record_issn ELSE None
            create == IF new_series
                      THEN <<[op |-> "create_series", issnDigital |-> issn]>>
                      ELSE <<>>
            ordinal == UbiquityApiOrdinal(series_number, new_series, thoth_issues)
        IN  /\ s_row' = [series_name |-> series, series_issn |-> record_issn,
                         cached |-> ~new_series]
            /\ IF series = None \/ IssuesOf(thoth_issues, work_id) # <<>>
               THEN SeriesCall("ubiquityapi", series_number, <<>>, "skipped")
               ELSE SeriesCall("ubiquityapi", series_number,
                               create \o <<[op |-> "create_issue",
                                            workId |-> work_id,
                                            issueOrdinal |-> ordinal]>>, "done")
    /\ UNCHANGED notSeries

SeriesNext ==
    \/ LHarmattanCreateSeries
    \/ UbiquityApiCreateSeries

\* the create_issue calls of the last create_series call
IssueCalls == SelectSeq(s_calls, LAMBDA c : c.op = "create_issue")

\* C8: a work with no issue is added to a series that has issues (or none),
\* and the record gives no series_number: the issueOrdinal sent is one more
\* than the maximum ordinal of the series' issues (1 when it has none), and
\* is the ordinal of no existing issue
C8_OrdinalIsNextAfterMaximum ==
    (s_loader \in {"lharmattan", "ubiquityapi"} /\ s_series_number = None) =>
        \A i \in DOMAIN IssueCalls :
            /\ IssueCalls[i].issueOrdinal = MaxOf(Ordinals(s_issues)) + 1
            /\ IssueCalls[i].issueOrdinal \notin Ordinals(s_issues)

\* C24: when LHarmattanLoader.create_series is given a series that is not
\* cached and an ISSN for which sanitise_issn raises the formatting error,
\* it returns normally as a skip, without a create_series or create_issue
\* call
C24_MalformedIssnIsSkipped ==
    (/\ s_loader = "lharmattan"
     /\ s_row.series_name # ""
     /\ ~s_row.cached
     /\ sanitise_issn(s_row.series_issn) = "ValueError") =>
        /\ s_outcome = "skipped"
        /\ s_calls = <<>>

----------------------------------------------------------------------------
(***************************************************************************)
(* CrossrefClient.get_doi (crossref.py 12-27).  One step per HTTP request: *)
(* the request raises, or answers 404, or answers with a JSON body, or     *)
(* answers with a body that is not JSON.  What res.json() raises for such  *)
(* a body depends on the installed requests: a RequestException            *)
(* (JSONDecodeError, requests 2.27 and later) or a plain ValueError.       *)
(***************************************************************************)

\* the frames of get_doi the interpreter allows
MaxDepth == 8

\* the get_doi calls of the caller
MaxDois == 3

Dois == {"10.1/a", "10.1/b", "10.1/c"}

\* crossref.py 23
RetryLimit == 5

CrossrefInit ==
    /\ retry_count = 0
    /\ x_pc = "idle"
    /\ x_doi = None
    /\ x_requests = 0
    /\ x_depth = 0
    /\ x_returned = EmptyDict
    /\ x_used = 0

CrossrefIdle ==
    /\ retry_count = 0
    /\ x_pc = "off"
    /\ x_doi = None
    /\ x_requests = 0
    /\ x_depth = 0
    /\ x_returned = EmptyDict
    /\ x_used = 0

\* the caller calls get_doi (crossrefchapterloader.py 55-56)
GetDoi ==
    /\ x_pc \in {"idle", "returned"}
    /\ x_used < MaxDois
    /\ \E doi \in Dois : x_doi' = doi
    /\ x_pc' = "request"
    /\ x_requests' = 0
    /\ x_depth' = 1
    /\ x_used' = x_used + 1
    /\ UNCHANGED <<retry_count, x_returned, notCrossref>>

\* crossref.py 15, 21-22: requests.get raises a RequestException; res is
\* not bound, so the handler's first line raises UnboundLocalError
RequestRaises ==
    /\ x_pc = "request"
    /\ x_requests' = x_requests + 1
    /\ x_pc' = "UnboundLocalError"
    /\ UNCHANGED <<retry_count, x_doi, x_depth, x_returned, x_used, notCrossref>>

\* crossref.py 15-18
RequestNotFound ==
    /\ x_pc = "request"
    /\ x_requests' = x_requests + 1
    /\ x_returned' = Put(x_returned, x_doi, "False")
    /\ x_pc' = "returned"
    /\ x_depth' = 0
    /\ UNCHANGED <<retry_count, x_doi, x_used, notCrossref>>

\* crossref.py 15-20
RequestAnswered ==
    /\ x_pc = "request"
    /\ x_requests' = x_requests + 1
    /\ retry_count' = 0
    /\ x_returned' = Put(x_returned, x_doi, "message")
    /\ x_pc' = "returned"
    /\ x_depth' = 0
    /\ UNCHANGED <<x_doi, x_used, notCrossref>>

\* crossref.py 23-27 after line 19 has run: the retry count the handler
\* leaves, and whether it retries
RetryCountAfter(count) == IF count <= RetryLimit THEN count + 1 ELSE count

Retries(count) == count <= RetryLimit

\* crossref.py 15-27: the body is not JSON.  Line 19 has reset the retry
\* count when res.json() raises
RequestNotJson ==
    /\ x_pc = "request"
    /\ x_requests' = x_requests + 1
    /\ \/ /\ retry_count' = RetryCountAfter(0)
          /\ x_pc' = IF ~Retries(0) THEN "SystemExit"
                     ELSE IF x_depth < MaxDepth THEN "request"
                     ELSE "RecursionError"
          /\ x_depth' = IF Retries(0) /\ x_depth < MaxDepth
                        THEN x_depth + 1 ELSE x_depth
       \/ /\ retry_count' = 0
          /\ x_pc' = "ValueError"
          /\ x_depth' = x_depth
    /\ UNCHANGED <<x_doi, x_returned, x_used, notCrossref>>

CrossrefNext ==
    \/ GetDoi
    \/ RequestRaises
    \/ RequestNotFound
    \/ RequestAnswered
    \/ RequestNotJson

\* C9: for one DOI request get_doi re-issues the HTTP request at most 5
\* times, and a call that ends on a failure ends by exiting the process
C9_AtMostFiveRetriesThenExit ==
    /\ x_requests <= 1 + 5
    /\ x_pc \notin {"UnboundLocalError", "ValueError", "RecursionError"}

----------------------------------------------------------------------------
(***************************************************************************)
(* run() of the loaders with an update path, up to the point where the     *)
(* work of the record exists remotely.  work_by_doi raises ThothError when *)
(* no work has the DOI; update_work succeeds or raises ThothError, as the  *)
(* remote system decides.                                                  *)
(***************************************************************************)

\* the records of one run
MaxRunRecords == 3

RunDois == {"10.2/a", "10.2/b", "10.2/c"}

RunLoaders == {"editus", "ubiquity", "ubiquityapi", "scielobook", "lharmattan"}

\* ubiquityloader.py 30-37, ubiquityapiloader.py 31-38, editusloader.py
\* 25-31: one try block around lookup and update, whose handler creates
UpdateOrCreate(found, update_fails) ==
    IF found
    THEN IF update_fails
         THEN [calls |-> <<"work_by_doi", "work_by_id", "update_work",
                           "create_work">>,
               outcome |-> "created"]
         ELSE [calls |-> <<"work_by_doi", "work_by_id", "update_work">>,
               outcome |-> "updated"]
    ELSE [calls |-> <<"work_by_doi", "create_work">>, outcome |-> "created"]

\* scieloloader.py 408-424, lharmattanloader.py 30-46: the update has a try
\* block of its own, whose handler exits
UpdateOrExit(found, update_fails) ==
    IF found
    THEN IF update_fails
         THEN [calls |-> <<"work_by_doi", "work_by_id", "update_work">>,
               outcome |-> "SystemExit"]
         ELSE [calls |-> <<"work_by_doi", "work_by_id", "update_work">>,
               outcome |-> "updated"]
    ELSE [calls |-> <<"work_by_doi", "create_work">>, outcome |-> "created"]

RunInit ==
    /\ r_loader \in RunLoaders
    /\ thoth_works = EmptyDict
    /\ r_doi = None
    /\ r_found = FALSE
    /\ r_calls = <<>>
    /\ r_outcome = "idle"
    /\ r_used = 0

RunIdle ==
    /\ r_loader = None
    /\ thoth_works = EmptyDict
    /\ r_doi = None
    /\ r_found = FALSE
    /\ r_calls = <<>>
    /\ r_outcome = "off"
    /\ r_used = 0

\* the next record of the run: its effect on the remote works and on what
\* the run has done; exits: the loader's update has a handler of its own
RunRecord(exits) ==
    /\ r_outcome # "SystemExit"
    /\ r_used < MaxRunRecords
    /\ \E doi \in RunDois, update_fails \in BOOLEAN :
        LET found == doi \in DOMAIN thoth_works
            done == IF exits THEN UpdateOrExit(found, update_fails)
                    ELSE UpdateOrCreate(found, update_fails)
        IN  /\ r_doi' = doi
            /\ r_found' = found
            /\ r_calls' = done.calls
            /\ r_outcome' = done.outcome
            /\ thoth_works' =
                    IF \E i \in DOMAIN done.calls : done.calls[i] = "create_work"
                    THEN Put(thoth_works, doi, "w" \o ToString(r_used + 1))
                    ELSE thoth_works
    /\ r_used' = r_used + 1
    /\ UNCHANGED <<r_loader, notRun>>

\* editusloader.py 20-31
EditusRun ==
    /\ r_loader = "editus"
    /\ RunRecord(FALSE)

\* ubiquityloader.py 16-37
UbiquityRun ==
    /\ r_loader = "ubiquity"
    /\ RunRecord(FALSE)

\* ubiquityapiloader.py 17-38
UbiquityApiRun ==
    /\ r_loader = "ubiquityapi"
    /\ RunRecord(FALSE)

\* scieloloader.py 401-424
ScieloBookRun ==
    /\ r_loader = "scielobook"
    /\ RunRecord(TRUE)

\* lharmattanloader.py 23-46
LHarmattanRun ==
    /\ r_loader = "lharmattan"
    /\ RunRecord(TRUE)

RunNext ==
    \/ EditusRun
    \/ UbiquityRun
    \/ UbiquityApiRun
    \/ ScieloBookRun
    \/ LHarmattanRun

\* C10: create_work is called for a record only when the lookup of its DOI
\* found no work; when the work exists and update_work fails, create_work
\* is not called for the record
C10_CreateOnlyOnLookupMiss ==
    (\E i \in DOMAIN r_calls : r_calls[i] = "create_work") => ~r_found

----------------------------------------------------------------------------
(***************************************************************************)
(* The field normalisers of BookLoader (bookloader.py 333-476), each       *)
(* applied once to arguments drawn from a bounded set.  An exception a     *)
(* normaliser raises is written as the name of its class.                  *)
(***************************************************************************)

\* the length of the title strings
MaxTitleLen == 4

\* the characters title strings are made of
TitleChars == {"a", ":", " ", "?"}

\* the strings of at most n characters of a set
RECURSIVE Strings(_, _)
Strings(chars, n) ==
    IF n = 0 THEN {""}
    ELSE LET shorter == Strings(chars, n - 1)
         IN  shorter \cup {str \o c : str \in shorter, c \in chars}

\* the subtitle arguments of sanitise_title
Subtitles == {None, "", "b", " b", "b: c"}

\* s.endswith(p)
EndsWith(s, p) ==
    Len(s) >= Len(p) /\ SubSeq(s, Len(s) - Len(p) + 1, Len(s)) = p

\* bookloader.py 333-339 (chapterloader.py 123-129 is the same)
sanitise_title_with_colon(title, subtitle) ==
    [title |-> title, subtitle |-> subtitle,
     fullTitle |-> IF Truthy(subtitle) THEN title \o ": " \o subtitle ELSE title]

sanitise_title_without_test(title, subtitle) ==
    LET character == IF EndsWith(title, "?") THEN " " ELSE ": "
    IN  [title |-> title, subtitle |-> subtitle,
         fullTitle |-> IF subtitle # None THEN title \o character \o subtitle
                       ELSE title]

sanitise_title(title, subtitle) ==
    LET character == IF EndsWith(title, "?") THEN " " ELSE ": "
        full_title == IF Truthy(subtitle) THEN title \o character \o subtitle
                      ELSE title
    IN  [title |-> title, subtitle |-> subtitle, fullTitle |-> full_title]

\* bookloader.py 341-351: the unpacking of re.split raises ValueError unless
\* there are exactly two pieces
split_title_untrimmed(full_title) ==
    LET pieces == Split(full_title, ":")
    IN  IF Len(pieces) = 2
        THEN [title |-> pieces[1], subtitle |-> pieces[2],
              fullTitle |-> full_title]
        ELSE [title |-> full_title, subtitle |-> None, fullTitle |-> full_title]

split_title(full_title) ==
    LET pieces == Split(full_title, ":")
    IN  IF Len(pieces) = 2
        THEN [title |-> Strip(pieces[1]), subtitle |-> Strip(pieces[2]),
              fullTitle |-> full_title]
        ELSE [title |-> full_title, subtitle |-> None, fullTitle |-> full_title]

\* bookloader.py 414-417
sanitise_doi(doi) == sanitise_identifier(doi, "doi")

\* bookloader.py 424-427
sanitise_ror(ror) == sanitise_identifier(ror, "ror")

\* the canonicaliser of a domain
Canonicalise(domain, identifier) ==
    CASE domain = "doi" -> sanitise_doi(identifier)
      [] domain = "orcid" -> sanitise_orcid(identifier)
      [] domain = "ror" -> sanitise_ror(identifier)

\* identifiers: a DOI, an ORCID iD, a ROR id, and a DOI whose suffix holds a
\* URL
Identifiers == {"10.11647/obp.0001", "0000-0002-1825-0097", "05gq02987",
                "10.1000/http://a.org"}

\* the forms an identifier is given in; "null" and "empty" carry none
IdentifierForms == {"id", "d.org/id", "http://d.org/id", "https://d.org/id",
                    "null", "empty"}

\* the argument that gives an identifier of a domain in a form
IdentifierInput(domain, id, form) ==
    CASE form = "id" -> id
      [] form = "d.org/id" -> domain \o ".org/" \o id
      [] form = "http://d.org/id" -> "http://" \o domain \o ".org/" \o id
      [] form = "https://d.org/id" -> "https://" \o domain \o ".org/" \o id
      [] form = "null" -> None
      [] form = "empty" -> ""

\* every character of a string is a digit
AllDigits(str) == \A i \in 1..Len(str) : Char(str, i) \in Digits

\* a string of digits without its leading zeros ("0" for zeros only)
RECURSIVE NoLeadingZeros(_)
NoLeadingZeros(str) ==
    IF Len(str) > 1 /\ Char(str, 1) = "0"
    THEN NoLeadingZeros(SubSeq(str, 2, Len(str))) ELSE str

\* str(int(s)) for a string s: the digits without leading zeros, or
\* ValueError
IntString(s) ==
    LET t == Strip(s)
    IN  IF t = "" \/ ~AllDigits(t) THEN "ValueError" ELSE NoLeadingZeros(t)

\* the value of a string of at most 9 digits
DigitsValue(str) == ParseInt(str)

\* isbn_hyphenate: the length of the registration group that begins the
\* digits after the prefix 978 (0 when the range is not in the table)
GroupLength(prefix, body) ==
    IF prefix # "978" THEN 0
    ELSE LET v == DigitsValue(SubSeq(body, 1, 5))
         IN  IF v <= 59999 THEN 1
             ELSE IF v <= 64999 THEN 3
             ELSE IF v <= 69999 THEN 0
             ELSE IF v <= 79999 THEN 1
             ELSE IF v <= 94999 THEN 2
             ELSE IF v <= 98999 THEN 3
             ELSE IF v <= 99899 THEN 4
             ELSE 5

\* isbn_hyphenate: the length of the registrant in the groups 978-0 and
\* 978-1, from the first seven digits after the group (0 when the range is
\* not in the table)
RegistrantLength(group, rest) ==
    LET v == DigitsValue(SubSeq(rest, 1, 7))
    IN  IF group = "0"
        THEN IF v <= 1999999 THEN 2
             ELSE IF v <= 6999999 THEN 3
             ELSE IF v <= 8499999 THEN 4
             ELSE IF v <= 8999999 THEN 5
             ELSE IF v <= 9499999 THEN 6
             ELSE 7
        ELSE IF group = "1"
        THEN IF v <= 999999 THEN 2
             ELSE IF v <= 3999999 THEN 3
             ELSE IF v <= 5499999 THEN 4
             ELSE IF v <= 8697999 THEN 5
             ELSE IF v <= 9989999 THEN 6
             ELSE 7
        ELSE 0

\* isbn_hyphenate.hyphenate (bookloader.py 384): the hyphenated form of a 10-
\* or 13-character ISBN, IsbnMalformedError for another length or a
\* character that is no digit (the last of 10 may be X), and
\* IsbnUnableToHyphenateError when the range is not in the table.  A
\* 10-character ISBN is looked up under 978 and returned without a prefix.
hyphenate(input_data) ==
    LET without_hyphens == Replace(input_data, "-", "")
        n == Len(without_hyphens)
        prefix == IF n = 13 THEN SubSeq(without_hyphens, 1, 3) ELSE "978"
        body == SubSeq(without_hyphens, n - 9, n - 1)
        check == Char(without_hyphens, n)
        g == GroupLength(prefix, body)
        group == SubSeq(body, 1, g)
        rest == SubSeq(body, g + 1, 9) \o "0000000"
        r == RegistrantLength(group, rest)
        registrant == SubSeq(body, g + 1, g + r)
        publication == SubSeq(body, g + r + 1, 9)
    IN  IF n \notin {10, 13} THEN "IsbnMalformedError"
        ELSE IF ~AllDigits(SubSeq(without_hyphens, 1, n - 1))
                \/ ~(check \in Digits \/ (n = 10 /\ check = "X"))
        THEN "IsbnMalformedError"
        ELSE IF g = 0 \/ r = 0 THEN "IsbnUnableToHyphenateError"
        ELSE (IF n = 13 THEN prefix \o "-" ELSE "")
                \o group \o "-" \o registrant \o "-" \o publication
                \o "-" \o check

\* bookloader.py 373-389
sanitise_isbn_rehyphenated(isbn) ==
    IF ~Truthy(isbn) THEN None
    ELSE LET digits == IntString(Replace(isbn, "-", ""))
         IN  IF digits = "ValueError" THEN None ELSE hyphenate(digits)

sanitise_isbn(isbn) ==
    IF ~Truthy(isbn) THEN None
    ELSE IF Find(isbn, "-") > 0
    THEN IF Len(isbn) # 17 THEN "IsbnMalformedError" ELSE isbn
    ELSE LET digits == IntString(isbn)
         IN  IF digits = "ValueError" THEN None ELSE hyphenate(digits)

\* the exceptions the normalisers raise
Exceptions == {"ValueError", "IsbnMalformedError", "IsbnUnableToHyphenateError"}

\* the isbn arguments
Isbns ==
    {None, "", "9780306406157", "978-0-306-40615-7", "978-0306406157",
     "9781843560289", "978-1-84356-028-9", "9781-843560289",
     "9-78-030640-615-7",
     "1843560283", "1-84356-028-3", "0306406152", "080442957X",
     "12345", "97803064061570", "9790000000001"}

\* the longest run of digits given as an ISSN
MaxIssnLen == 9

\* n digits
RECURSIVE Ones(_)
Ones(n) == IF n = 0 THEN "" ELSE "1" \o Ones(n - 1)

\* the issn arguments: nothing, up to MaxIssnLen digits without a hyphen or
\* with one anywhere, and texts with other characters
Issns ==
    {None, "abcdefgh", "abcd-efgh", "2049-363X", "2049363X", "1234--567"}
        \cup {Ones(n) : n \in 0..MaxIssnLen}
        \cup {Ones(k) \o "-" \o Ones(n) : n \in 0..MaxIssnLen, k \in 0..MaxIssnLen}

\* bookloader.py 361-371: int(date) raises ValueError for a text that is
\* not a whole number
sanitise_date(date) ==
    IF ~Truthy(date) THEN None
    ELSE LET number == IntString(date)
         IN  IF number = "ValueError" THEN "ValueError"
             ELSE IF Len(number) = Len("2023") THEN number \o "-01-01"
             ELSE IF Len(number) = Len("20200101")
             THEN SubSeq(number, 1, 4) \o "-" \o SubSeq(number, 5, 6)
                    \o "-" \o SubSeq(number, 7, 8)
             ELSE Strip(Replace(number, "/", "-"))

\* the date arguments
Years == {"1999", "2020", "2023"}

Months == {"01", "12"}

Days == {"01", "31"}

Dates ==
    {None, "", "202001", " 2023 ", "2020-01-01"}
        \cup Years
        \cup {y \o mm \o d : y \in Years, mm \in Months, d \in Days}
        \cup {y \o "/" \o mm \o "/" \o d : y \in Years, mm \in Months, d \in Days}

\* bookloader.py 158, int_regex.match(media_count).group(0): the digits that
\* begin a text, "" standing for no match (AttributeError)
RECURSIVE int_regex_match(_)
int_regex_match(str) ==
    IF Len(str) > 0 /\ Char(str, 1) \in Digits
    THEN Char(str, 1) \o int_regex_match(SubSeq(str, 2, Len(str)))
    ELSE ""

\* bookloader.py 159-160, audio_regex.search / video_regex.search: one to
\* three digits followed by " (aud)" or " (vid)" stand somewhere in the text
media_regex_search(kind, str) ==
    \E i \in 1..Len(str) :
        /\ Char(str, i) \in Digits
        /\ i + Len(kind) <= Len(str)
        /\ SubSeq(str, i + 1, i + Len(kind)) = kind

\* bookloader.py 454-455: the integer that begins the cell, 0 where the
\* AttributeError of a cell that begins otherwise is caught (467, 474)
find_integer(media_count) ==
    IF int_regex_match(media_count) = "" THEN 0
    ELSE ParseInt(int_regex_match(media_count))

\* bookloader.py 451-476: the pair <<audio_count, video_count>>
sanitise_media(media_count) ==
    IF media_count = None THEN <<0, 0>>
    ELSE IF IntString(media_count) # "ValueError"
    THEN <<ParseInt(IntString(media_count)), 0>>
    ELSE <<IF media_regex_search(" (aud)", media_count)
           THEN find_integer(media_count) ELSE 0,
           IF media_regex_search(" (vid)", media_count)
           THEN find_integer(media_count) ELSE 0>>

\* the cells given as media counts
MediaCounts ==
    {None, "", "0", "3", "12", " 3 ", "2 (vid)", "3 (aud)", "12 (vid)",
     "1 (aud) 2 (vid)", "2 (vid) 1 (aud)", "2 (vid) 2 (aud)",
     " 2 (vid)", "1234 (aud)", "2 (vid) in all", "(vid)", "abc", "3 films",
     "12 in all, 2 (vid)"}

SanInit ==
    /\ f_fn = "idle"
    /\ f_in = None
    /\ f_out = None

SanIdle ==
    /\ f_fn = "off"
    /\ f_in = None
    /\ f_out = None

\* bookloader.py 333-339
SanitiseTitle ==
    /\ f_fn = "idle"
    /\ \E title \in Strings(TitleChars, MaxTitleLen), subtitle \in Subtitles :
        /\ f_in' = [title |-> title, subtitle |-> subtitle]
        /\ f_out' = sanitise_title(title, subtitle)
    /\ f_fn' = "sanitise_title"
    /\ UNCHANGED notSan

\* bookloader.py 341-351, and 333-339 applied to the parts it returns
SplitTitle ==
    /\ f_fn = "idle"
    /\ \E full_title \in Strings(TitleChars, MaxTitleLen) :
        LET parts == split_title(full_title)
        IN  /\ f_in' = full_title
            /\ f_out' = [split |-> parts,
                         rejoined |-> sanitise_title(parts.title, parts.subtitle)]
    /\ f_fn' = "split_title"
    /\ UNCHANGED notSan

\* bookloader.py 414-441, applied once and then to its own result
SanitiseIdentifier ==
    /\ f_fn = "idle"
    /\ \E domain \in {"doi", "orcid", "ror"}, id \in Identifiers,
          form \in IdentifierForms :
        LET identifier == IdentifierInput(domain, id, form)
            once == Canonicalise(domain, identifier)
        IN  /\ f_in' = [domain |-> domain, id |-> id, form |-> form,
                        identifier |-> identifier]
            /\ f_out' = [once |-> once, twice |-> Canonicalise(domain, once)]
    /\ f_fn' = "sanitise_identifier"
    /\ UNCHANGED notSan

\* bookloader.py 373-389, applied once and then to what it returned
SanitiseIsbn ==
    /\ f_fn = "idle"
    /\ \E isbn \in Isbns :
        LET once == sanitise_isbn(isbn)
        IN  /\ f_in' = isbn
            /\ f_out' = [once |-> once,
                         twice |-> IF once \in Exceptions THEN once
                                   ELSE sanitise_isbn(once)]
    /\ f_fn' = "sanitise_isbn"
    /\ UNCHANGED notSan

\* bookloader.py 391-402
SanitiseIssn ==
    /\ f_fn = "idle"
    /\ \E issn \in Issns :
        /\ f_in' = issn
        /\ f_out' = sanitise_issn(issn)
    /\ f_fn' = "sanitise_issn"
    /\ UNCHANGED notSan

\* bookloader.py 361-371
SanitiseDate ==
    /\ f_fn = "idle"
    /\ \E date \in Dates :
        /\ f_in' = date
        /\ f_out' = sanitise_date(date)
    /\ f_fn' = "sanitise_date"
    /\ UNCHANGED notSan

\* bookloader.py 451-476
SanitiseMedia ==
    /\ f_fn = "idle"
    /\ \E media_count \in MediaCounts :
        /\ f_in' = media_count
        /\ f_out' = sanitise_media(media_count)
    /\ f_fn' = "sanitise_media"
    /\ UNCHANGED notSan

SanNext ==
    \/ SanitiseTitle
    \/ SplitTitle
    \/ SanitiseIdentifier
    \/ SanitiseIsbn
    \/ SanitiseIssn
    \/ SanitiseDate
    \/ SanitiseMedia

\* the number of colons of a string
Colons(str) == Cardinality({i \in 1..Len(str) : Char(str, i) = ":"})

\* the text of a string before and after its first colon
BeforeColon(str) == SubSeq(str, 1, Find(str, ":") - 1)
AfterColon(str) == SubSeq(str, Find(str, ":") + 1, Len(str))

\* C12 as stated: for every title with exactly one colon, split_title and
\* then sanitise_title on the parts give a fullTitle equal to the title
C12_RoundTrip ==
    (f_fn = "split_title" /\ Colons(f_in) = 1) =>
        f_out.rejoined.fullTitle = f_in

\* C12 as the code has it: for a title with exactly one colon the round trip
\* gives the title back exactly when the colon follows a title that has no
\* space around it and no "?" at its end, and is followed by one space and
\* a non-empty subtitle with no space around it
C12_RoundTripOnlyForJoinedForm ==
    (f_fn = "split_title" /\ Colons(f_in) = 1) =>
        (f_out.rejoined.fullTitle = f_in
            <=> /\ Strip(BeforeColon(f_in)) = BeforeColon(f_in)
                /\ ~EndsWith(BeforeColon(f_in), "?")
                /\ Strip(AfterColon(f_in)) # ""
                /\ AfterColon(f_in) = " " \o Strip(AfterColon(f_in)))

\* a title of the joined form came back from the round trip
C12_Witness ==
    /\ f_fn = "split_title"
    /\ f_in = "a: a"
    /\ f_out.split.title = "a"
    /\ f_out.split.subtitle = "a"
    /\ f_out.rejoined.fullTitle = "a: a"

\* C13: sanitise_title returns title and subtitle unchanged, and a fullTitle
\* of title + " " + subtitle when a subtitle is supplied and the title ends
\* with "?", title + ": " + subtitle when a subtitle is supplied and the title
\* does not end with "?", and the title alone when the subtitle is null or
\* empty
C13_FullTitleJoined ==
    f_fn = "sanitise_title" =>
        /\ f_out.title = f_in.title
        /\ f_out.subtitle = f_in.subtitle
        /\ f_out.fullTitle =
                IF f_in.subtitle \in {None, ""} THEN f_in.title
                ELSE IF Len(f_in.title) > 0
                        /\ Char(f_in.title, Len(f_in.title)) = "?"
                THEN f_in.title \o " " \o f_in.subtitle
                ELSE f_in.title \o ": " \o f_in.subtitle

\* a subtitle was joined to a title that ends with "?"
C13_Witness ==
    /\ f_fn = "sanitise_title"
    /\ f_in = [title |-> "a a?", subtitle |-> "b"]
    /\ f_out.fullTitle = "a a? b"

\* C14: with exactly one colon split_title returns the trimmed text before
\* it as title and the trimmed text after it as subtitle; with no colon or
\* more than one, the whole string as title and no subtitle; the fullTitle
\* is always the input unchanged
C14_SplitOnTheOnlyColon ==
    f_fn = "split_title" =>
        /\ f_out.split.fullTitle = f_in
        /\ Colons(f_in) = 1 =>
                /\ f_out.split.title = Strip(BeforeColon(f_in))
                /\ f_out.split.subtitle = Strip(AfterColon(f_in))
        /\ Colons(f_in) # 1 =>
                /\ f_out.split.title = f_in
                /\ f_out.split.subtitle = None

\* a title with a space before it and one colon was split and trimmed
C14_Witness ==
    /\ f_fn = "split_title"
    /\ f_in = " a:a"
    /\ f_out.split.title = "a"
    /\ f_out.split.subtitle = "a"

\* C15: for sanitise_doi, sanitise_orcid and sanitise_ror (domain d) and every
\* identifier id, "id", "d.org/id", "http://d.org/id" and "https://d.org/id"
\* all give "https://d.org/id", an empty or null input gives null, and the
\* canonicaliser applied to its result gives the result again
C15_FormsGiveOneUrl ==
    f_fn = "sanitise_identifier" =>
        /\ f_in.form \in {"null", "empty"} => f_out.once = None
        /\ f_in.form \notin {"null", "empty"} =>
                f_out.once = "https://" \o f_in.domain \o ".org/" \o f_in.id
        /\ f_out.twice = f_out.once

\* the sum of the digits of a string at the positions of a set
RECURSIVE DigitSum(_, _)
DigitSum(str, positions) ==
    IF positions = {} THEN 0
    ELSE LET i == CHOOSE i \in positions : TRUE
         IN  ParseInt(Char(str, i)) + DigitSum(str, positions \ {i})

\* a string holds, hyphens aside, a valid 13-digit ISBN
ValidIsbn13(str) ==
    LET d == Replace(str, "-", "")
    IN  /\ str # None
        /\ Len(d) = 13
        /\ AllDigits(d)
        /\ SubSeq(d, 1, 3) = "978"
        /\ (DigitSum(d, {1, 3, 5, 7, 9, 11, 13})
                + 3 * DigitSum(d, {2, 4, 6, 8, 10, 12})) % 10 = 0

\* the hyphens of a string
Hyphens(str) == Cardinality({i \in 1..Len(str) : Char(str, i) = "-"})

C17_IdempotentOnAccepted ==
    (f_fn = "sanitise_isbn" /\ f_out.once \notin Exceptions \cup {None}) =>
        f_out.twice = f_out.once

\* a string is 8 digits, or 4 digits, a hyphen and 4 digits
EightDigits(str) ==
    \/ Len(str) = 8 /\ AllDigits(str)
    \/ /\ Len(str) = 9
       /\ Char(str, 5) = "-"
       /\ AllDigits(SubSeq(str, 1, 4))
       /\ AllDigits(SubSeq(str, 6, 9))

\* C18 as stated: sanitise_issn raises the formatting error for every ISSN
\* that is not 8 digits with at most a hyphen after the 4th, and what it
\* returns for 8 digits has 9 characters with the hyphen after the 4th
C18_RaisesUnlessEightDigits ==
    (f_fn = "sanitise_issn" /\ f_in \notin {None, ""}) =>
        IF EightDigits(f_in)
        THEN /\ Len(f_out) = 9
             /\ Replace(f_out, "-", "") = Replace(f_in, "-", "")
             /\ Char(f_out, 5) = "-"
        ELSE f_out = "ValueError"

\* C18 as the code has it: sanitise_issn raises the formatting error exactly
\* for the inputs that have a hyphen and not 9 characters, or no hyphen and
\* not 8 characters; it returns a 9-character input with a hyphen as given,
\* an 8-character input without one with a hyphen after the 4th character,
\* and null for an empty or null input
C18_RaisesUnlessNineCharacters ==
    f_fn = "sanitise_issn" =>
        IF f_in \in {None, ""} THEN f_out = None
        ELSE IF Hyphens(f_in) > 0
        THEN f_out = (IF Len(f_in) = 9 THEN f_in ELSE "ValueError")
        ELSE IF Len(f_in) = 8
        THEN /\ Len(f_out) = 9
             /\ Char(f_out, 5) = "-"
             /\ Replace(f_out, "-", "") = f_in
        ELSE f_out = "ValueError"

\* 8 digits were given a hyphen
C18_Witness ==
    /\ f_fn = "sanitise_issn"
    /\ f_in = "11111111"
    /\ f_out = "1111-1111"

\* C19: sanitise_date gives "Y-01-01" for a 4-digit year Y, "YYYY-MM-DD" for
\* the 8 digits YYYYMMDD, the date with hyphens for a date with slashes
\* ("2020/01/01" gives "2020-01-01"), and null for an empty or null input
C19_ThreeDateForms ==
    f_fn = "sanitise_date" =>
        /\ f_in \in {None, ""} => f_out = None
        /\ f_in \in Years => f_out = f_in \o "-01-01"
        /\ (f_in # None /\ Len(f_in) = 8 /\ AllDigits(f_in)) =>
                f_out = SubSeq(f_in, 1, 4) \o "-" \o SubSeq(f_in, 5, 6)
                            \o "-" \o SubSeq(f_in, 7, 8)
        /\ (f_in # None /\ Len(f_in) = 10 /\ Find(f_in, "/") = 5) =>
                f_out = Replace(f_in, "/", "-")

\* the integers of a text that are annotated with a kind: the runs of digits
\* that " (aud)" or " (vid)" follows
Annotated(str, kind) ==
    {ParseInt(SubSeq(str, i, j)) : <<i, j>> \in
        {ij \in (1..Len(str)) \X (1..Len(str)) :
            /\ ij[1] <= ij[2]
            /\ AllDigits(SubSeq(str, ij[1], ij[2]))
            /\ (ij[1] = 1 \/ Char(str, ij[1] - 1) \notin Digits)
            /\ ij[2] + Len(kind) <= Len(str)
            /\ SubSeq(str, ij[2] + 1, ij[2] + Len(kind)) = kind}}

\* a text is a whole number, blanks around it aside
BareInteger(str) == str # None /\ AllDigits(Strip(str)) /\ Strip(str) # ""

\* C20: sanitise_media gives <<n, 0>> for a bare integer n, <<0, n>> for
\* "n (vid)", <<n, 0>> for "n (aud)", <<0, 0>> for null and for any other
\* text, and a count it routes to a kind is always the integer annotated
\* with that kind
C20_CountsRoutedByAnnotation ==
    f_fn = "sanitise_media" =>
        /\ f_in = None => f_out = <<0, 0>>
        /\ BareInteger(f_in) => f_out = <<ParseInt(Strip(f_in)), 0>>
        /\ (f_in # None /\ ~BareInteger(f_in)) =>
            /\ f_out[1] = 0 \/ f_out[1] \in Annotated(f_in, " (aud)")
            /\ f_out[2] = 0 \/ f_out[2] \in Annotated(f_in, " (vid)")
            /\ (BareInteger(int_regex_match(f_in))
                    /\ f_in = int_regex_match(f_in) \o " (vid)") =>
                    f_out = <<0, ParseInt(int_regex_match(f_in))>>
            /\ (BareInteger(int_regex_match(f_in))
                    /\ f_in = int_regex_match(f_in) \o " (aud)") =>
                    f_out = <<ParseInt(int_regex_match(f_in)), 0>>
            /\ (Annotated(f_in, " (aud)") \cup Annotated(f_in, " (vid)") = {}
                    /\ IntString(f_in) = "ValueError") =>
                    f_out = <<0, 0>>

----------------------------------------------------------------------------
(***************************************************************************)
(* Handlers that are given a record and the work fetched for it, each      *)
(* called once on a remote state drawn from a bounded set.  The remote     *)
(* system is a plain store: it keeps what it is sent.                      *)
(***************************************************************************)

HandlerInit ==
    /\ h_fn = "idle"
    /\ h_record = None
    /\ h_work = None
    /\ h_thoth = None
    /\ h_calls = <<>>
    /\ h_out = None

HandlerIdle ==
    /\ h_fn = "off"
    /\ h_record = None
    /\ h_work = None
    /\ h_thoth = None
    /\ h_calls = <<>>
    /\ h_out = None

\* the most locations a fetched publication has
MaxPubLocations == 1

PublicationTypes == {"PDF", "EPUB", "PAPERBACK"}

Platforms == {"SCIELO_BOOKS", "OTHER", "PUBLISHER_WEBSITE"}

\* the location lists of a fetched publication: where it has locations,
\* exactly one of them is canonical
FetchedLocations ==
    {l \in ListsUpTo([locationPlatform : Platforms, canonical : {"true", "false"}],
                     MaxPubLocations) :
        l # <<>> => Cardinality(Canonicals(l)) = 1}

\* work.publications: publication type -> <<>> (none of the type) or
\* <<publication>>
FetchedPublications ==
    [PublicationTypes -> {<<>>} \cup {<<[locations |-> l]>> : l \in FetchedLocations}]

\* scieloloader.py 167-169: re.match(r"https://books\.scielo\.org/id/.{5}")
BooksUrl(pdf_url) ==
    LET prefix == "https://books.scielo.org/id/"
    IN  IF StartsWith(pdf_url, prefix) /\ Len(pdf_url) >= Len(prefix) + 5
        THEN SubSeq(pdf_url, 1, Len(prefix) + 5) ELSE None

\* scieloloader.py 164-181: the publications of a record, as
\* <<publication_type, isbn, landing_page, full_text>>
ScieloPublications(record) ==
    IF record.TYPE = "Part"
    THEN << <<"PDF", None, BooksUrl(record.pdf_url), record.pdf_url>> >>
    ELSE << <<"PDF", None, record.books_url, record.pdf_url>>,
            <<"EPUB", sanitise_isbn(record.eisbn), record.books_url,
              record.epub_url>>,
            <<"PAPERBACK", sanitise_isbn(record.isbn), record.books_url, None>> >>

\* lharmattanloader.py 244-250; the full text URL is the landing page (281)
LHarmattanPublications(row) ==
    << <<"PDF", None, row.scs023_doi, row.scs023_doi>>,
       <<"PAPERBACK", sanitise_isbn(Strip(row.scs023_isbn)),
         row.scs023_printed_version, row.scs023_printed_version>> >>

\* scieloloader.py 183-216, lharmattanloader.py 252-287: the loop over the
\* publications; st = [thoth |-> the remote publications, calls |-> the
\* calls so far], work the publications as fetched, own the loader's platform
RECURSIVE CreatePublications(_, _, _, _)
CreatePublications(st, publications, work, own) ==
    IF publications = <<>> THEN st
    ELSE
    LET publication == Head(publications)
        publication_type == publication[1]
        existing_publication == work[publication_type]
        created == <<[op |-> "create_publication",
                      publicationType |-> publication_type,
                      isbn |-> publication[2]]>>
        skip == /\ existing_publication # <<>>
                /\ \E i \in DOMAIN existing_publication[1].locations :
                        existing_publication[1].locations[i].locationPlatform = own
        location == [locationPlatform |-> own, canonical |-> "true"]
        locations == IF existing_publication = <<>> THEN <<>>
                     ELSE st.thoth[publication_type][1].locations
        st1 ==
            IF skip THEN st
            ELSE [thoth |-> [st.thoth EXCEPT ![publication_type] =
                                <<[locations |-> Append(locations, location)]>>],
                  calls |-> st.calls
                    \o (IF existing_publication = <<>> THEN created ELSE <<>>)
                    \o <<[op |-> "create_location",
                          publicationType |-> publication_type,
                          landingPage |-> publication[3],
                          fullTextUrl |-> publication[4],
                          locationPlatform |-> location.locationPlatform,
                          canonical |-> location.canonical]>>]
    IN  CreatePublications(st1, Tail(publications), work, own)

\* the records of the SciELO JSON file
ScieloRecords ==
    [TYPE : {"Part", "Book"},
     pdf_url : {"https://books.scielo.org/id/abcde/pdf/x.pdf"},
     books_url : {"https://books.scielo.org/id/abcde"},
     epub_url : {"https://books.scielo.org/id/abcde/epub/x.epub"},
     eisbn : {""},
     isbn : {"", "9781843560289"}]

\* the rows of the L'Harmattan CSV file
LHarmattanRows ==
    [scs023_isbn : {"", " 9781843560289 "},
     scs023_printed_version : {"https://h.hu/1"},
     scs023_doi : {"https://doi.org/10.1000/1"}]

\* scieloloader.py 157-216
ScieloCreatePublications ==
    /\ h_fn = "idle"
    /\ \E record \in ScieloRecords, work \in FetchedPublications :
        LET st == CreatePublications([thoth |-> work, calls |-> <<>>],
                                     ScieloPublications(record), work,
                                     "SCIELO_BOOKS")
        IN  /\ h_record' = record
            /\ h_work' = work
            /\ h_thoth' = st.thoth
            /\ h_calls' = st.calls
    /\ h_out' = None
    /\ h_fn' = "scielo.create_publications"
    /\ UNCHANGED notHandler

\* lharmattanloader.py 238-287
LHarmattanCreatePublications ==
    /\ h_fn = "idle"
    /\ \E row \in LHarmattanRows, work \in FetchedPublications :
        LET st == CreatePublications([thoth |-> work, calls |-> <<>>],
                                     LHarmattanPublications(row), work, "OTHER")
        IN  /\ h_record' = row
            /\ h_work' = work
            /\ h_thoth' = st.thoth
            /\ h_calls' = st.calls
    /\ h_out' = None
    /\ h_fn' = "lharmattan.create_publications"
    /\ UNCHANGED notHandler

\* the most issues collected in one run
MaxIssues == 3

\* the issues extract_issues_data collects (leuvenloader.py 337-341);
\* issue_ordinal is <<>> (None) or <<number>>
CollectedIssues ==
    [work_id : {"w1", "w2"}, series_id : {"s1", "s2"},
     issue_ordinal : {<<>>, <<1>>, <<2>>}]

\* the order of two series ids as strings: they differ in their last
\* character, a digit
SeriesIdLess(a, b) ==
    ParseInt(SubSeq(a, Len(a), Len(a))) < ParseInt(SubSeq(b, Len(b), Len(b)))

\* sorted(): x goes after every element that is not greater than it
RECURSIVE InsertBySeries(_, _)
InsertBySeries(sorted, x) ==
    IF sorted = <<>> THEN <<x>>
    ELSE LET last == sorted[Len(sorted)]
         IN  IF SeriesIdLess(x.series_id, last.series_id)
             THEN Append(InsertBySeries(SubSeq(sorted, 1, Len(sorted) - 1), x), last)
             ELSE Append(sorted, x)

\* leuvenloader.py 351: sorted(issues_to_create, key=series_id), stable
RECURSIVE SortedBySeries(_)
SortedBySeries(issues) ==
    IF issues = <<>> THEN <<>>
    ELSE InsertBySeries(SortedBySeries(SubSeq(issues, 1, Len(issues) - 1)),
                        issues[Len(issues)])

\* leuvenloader.py 352-354: itertools.groupby over the sorted issues
RECURSIVE GroupBySeries(_)
GroupBySeries(sorted_issues) ==
    IF sorted_issues = <<>> THEN <<>>
    ELSE LET key == Head(sorted_issues).series_id
             n == Cardinality({i \in DOMAIN sorted_issues :
                                \A j \in 1..i : sorted_issues[j].series_id = key})
         IN  <<SubSeq(sorted_issues, 1, n)>>
                \o GroupBySeries(SubSeq(sorted_issues, n + 1, Len(sorted_issues)))

\* leuvenloader.py 359-360: the key (issue_ordinal is not None,
\* issue_ordinal) of a is less than that of b
IssueKeyLessNever(a, b) == FALSE

IssueKeyLess(a, b) ==
    \/ a.issue_ordinal = <<>> /\ b.issue_ordinal # <<>>
    \/ /\ a.issue_ordinal # <<>>
       /\ b.issue_ordinal # <<>>
       /\ a.issue_ordinal[1] < b.issue_ordinal[1]

RECURSIVE InsertByOrdinal(_, _)
InsertByOrdinal(sorted, x) ==
    IF sorted = <<>> THEN <<x>>
    ELSE LET last == sorted[Len(sorted)]
         IN  IF IssueKeyLess(x, last)
             THEN Append(InsertByOrdinal(SubSeq(sorted, 1, Len(sorted) - 1), x), last)
             ELSE Append(sorted, x)

\* leuvenloader.py 359-360: sorted(issue_list, key=...), stable
RECURSIVE SortedByOrdinal(_)
SortedByOrdinal(issue_list) ==
    IF issue_list = <<>> THEN <<>>
    ELSE InsertByOrdinal(SortedByOrdinal(SubSeq(issue_list, 1, Len(issue_list) - 1)),
                         issue_list[Len(issue_list)])

\* leuvenloader.py 361-370: the create_issue calls of one series
IssueCallsOf(issue_list) ==
    LET sorted_list == SortedByOrdinal(issue_list)
    IN  [index \in DOMAIN sorted_list |->
            [op |-> "create_issue",
             seriesId |-> sorted_list[index].series_id,
             workId |-> sorted_list[index].work_id,
             issueOrdinal |-> index]]

\* leuvenloader.py 356-370: the calls of all the groups, in order
RECURSIVE AllIssueCalls(_)
AllIssueCalls(grouped_issues) ==
    IF grouped_issues = <<>> THEN <<>>
    ELSE IssueCallsOf(Head(grouped_issues)) \o AllIssueCalls(Tail(grouped_issues))

\* leuvenloader.py 344-370, uolloader.py 365-391
CreateAllIssues ==
    /\ h_fn = "idle"
    /\ \E issues_to_create \in ListsUpTo(CollectedIssues, MaxIssues) :
        /\ h_record' = issues_to_create
        /\ h_calls' = AllIssueCalls(GroupBySeries(SortedBySeries(issues_to_create)))
    /\ h_work' = None
    /\ h_thoth' = None
    /\ h_out' = None
    /\ h_fn' = "create_all_issues"
    /\ UNCHANGED notHandler

\* the DOIs that remote works hold
ChapterDois == {"https://doi.org/10.7476/a", "https://doi.org/10.7476/b"}

\* the remote works as far as DOIs go: the chapter with the record's
\* internal id, <<>> if there is none, and the DOIs other works hold; no two
\* works hold one DOI
RemoteChapters ==
    {r \in [chapter : {<<>>} \cup {<<[workId |-> "c", doi |-> d]>> :
                                      d \in {None} \cup ChapterDois},
            others : SUBSET ChapterDois] :
        r.chapter # <<>> => r.chapter[1].doi \notin r.others}

\* the records of the SciELO chapter JSON file
ChapterRecords ==
    [_id : {"id1"},
     descriptive_information :
        {"", "10.7476/a", "https://doi.org/10.7476/b", "doi.org/10.7476/c"}]

\* thoth.work_by_doi(doi).workId, "ThothError" when no work holds the DOI
WorkByDoi(remote, doi) ==
    IF remote.chapter # <<>> /\ remote.chapter[1].doi = doi
    THEN remote.chapter[1].workId
    ELSE IF doi \in remote.others THEN "o" ELSE "ThothError"

\* scieloloader.py 368-396: [doi |-> what is returned, raised |-> None or
\* the exception that ends the call]
check_duplicate_doi_unchecked(doi, chapter_exists, remote) ==
    [doi |-> doi, raised |-> None]

check_duplicate_doi(doi, chapter_exists, remote) ==
    IF chapter_exists
    THEN LET chapter_from_internal_id == remote.chapter[1]
             chapter_doi == chapter_from_internal_id.doi
             work_id_from_internal_id == chapter_from_internal_id.workId
             work_id_from_doi == WorkByDoi(remote, doi)
         IN  IF ~Truthy(chapter_doi) THEN [doi |-> None, raised |-> None]
             ELSE IF work_id_from_doi = "ThothError"
             THEN [doi |-> None, raised |-> "UnboundLocalError"]
             ELSE IF work_id_from_internal_id = work_id_from_doi
             THEN [doi |-> doi, raised |-> None]
             ELSE [doi |-> None, raised |-> None]
    ELSE IF WorkByDoi(remote, doi) # "ThothError"
    THEN [doi |-> None, raised |-> None]
    ELSE [doi |-> doi, raised |-> None]

\* scieloloader.py 301-307: the doi of the work get_work builds
GetWorkDoi(record, chapter_exists, remote) ==
    LET raw_doi == IF Truthy(record.descriptive_information)
                   THEN record.descriptive_information ELSE None
        doi == IF Truthy(raw_doi) THEN sanitise_doi(raw_doi) ELSE None
    IN  IF Truthy(doi) THEN check_duplicate_doi(doi, chapter_exists, remote)
        ELSE [doi |-> None, raised |-> None]

\* scieloloader.py 231-263, 280-307: run() finds out whether the chapter
\* exists and calls get_work, which builds the doi of the payload
ScieloChapterGetWork ==
    /\ h_fn = "idle"
    /\ \E record \in ChapterRecords, remote \in RemoteChapters :
        /\ h_record' = record
        /\ h_work' = remote
        /\ h_out' = GetWorkDoi(record, remote.chapter # <<>>, remote)
    /\ h_thoth' = None
    /\ h_calls' = <<>>
    /\ h_fn' = "scielo_chapter.get_work"
    /\ UNCHANGED notHandler

\* the most rows of the chapter CSV file
MaxRows == 3

\* the books of the publisher in Thoth
ThothBooks ==
    {[workId |-> "b1", fullTitle |-> "Dickens"],
     [workId |-> "b2", fullTitle |-> "Dante: A Life"]}

\* the "Book Title" column of a row
BookTitles == {"Dickens", "Dante: A Life", "Dante", "Milton"}

\* chapterloader.py 81-88: thoth.books(search=title)[0], the first book whose
\* title contains the search text; <<>> when there is none (sys.exit)
get_book_by_title(title) ==
    LET found == {b \in ThothBooks : Find(b.fullTitle, title) > 0}
    IN  IF found = {} THEN <<>>
        ELSE <<CHOOSE b \in found : TRUE>>

\* obpchapterloadercsv.py 18-39: the rows from the i-th on; st =
\* [current_book, relation_ordinal, calls, raised]
RECURSIVE ChapterRows(_, _, _)
ChapterRows(st, rows, i) ==
    IF i > Len(rows) THEN st
    ELSE
    LET title == rows[i]
        same == title = st.current_book.fullTitle
        book == IF same THEN <<st.current_book>> ELSE get_book_by_title(title)
        ordinal == IF same THEN st.relation_ordinal + 1 ELSE 1
    IN  IF book = <<>> THEN [st EXCEPT !.raised = "SystemExit"]
        ELSE ChapterRows(
                [current_book |-> book[1],
                 relation_ordinal |-> ordinal,
                 calls |-> st.calls \o
                    <<[op |-> "create_work", row |-> i],
                      [op |-> "create_work_relation",
                       relatorWorkId |-> book[1].workId,
                       relatedWorkId |-> i,
                       relationOrdinal |-> ordinal]>>,
                 raised |-> None],
                rows, i + 1)

\* obpchapterloadercsv.py 14-39
ObpChapterCsvRun ==
    /\ h_fn = "idle"
    /\ \E rows \in SeqsUpTo(BookTitles, MaxRows) :
        LET st == ChapterRows([current_book |-> [workId |-> None, fullTitle |-> ""],
                               relation_ordinal |-> 0, calls |-> <<>>,
                               raised |-> None], rows, 1)
        IN  /\ h_record' = rows
            /\ h_calls' = st.calls
            /\ h_out' = [raised |-> st.raised]
    /\ h_work' = ThothBooks
    /\ h_thoth' = None
    /\ h_fn' = "obp_chapter_csv.run"
    /\ UNCHANGED notHandler

\* --- create_contributors on a fetched work

\* the most contributions a fetched work has
MaxContributions == 2

\* the most creators one record lists
MaxListed == 2

\* the contributors the remote system holds when the run starts
RemoteContributor(n) ==
    IF n = 1
    THEN [contributorId |-> ContributorId(1), firstName |-> "Ana",
          lastName |-> "Silva", fullName |-> "Ana Silva", orcid |-> None,
          website |-> None]
    ELSE [contributorId |-> ContributorId(2), firstName |-> "Bo",
          lastName |-> "Li", fullName |-> "Bo Li", orcid |-> None,
          website |-> None]

RemoteContributors(n) ==
    [id \in {ContributorId(k) : k \in 1..n} |->
        IF id = ContributorId(1) THEN RemoteContributor(1) ELSE RemoteContributor(2)]

\* bookloader.py 186-191: the cache of the contributors found at start-up
CachedContributors(n) ==
    [full_name \in {RemoteContributor(k).fullName : k \in 1..n} |->
        IF full_name = RemoteContributor(1).fullName
        THEN ContributorId(1) ELSE ContributorId(2)]

\* work.contributions of the fetched work: contributions of remote
\* contributors with pairwise distinct ordinals
FetchedContributions(n) ==
    {cs \in UNION {[1..k -> [contributorId : {ContributorId(j) : j \in 1..n},
                             contributionType : {"AUTHOR", "EDITOR"},
                             contributionOrdinal : 1..3]] :
                        k \in 0..MaxContributions} :
        \A i, j \in DOMAIN cs :
            cs[i].contributionOrdinal = cs[j].contributionOrdinal => i = j}

\* the fetched works the handlers are run on
FetchedWorks ==
    UNION {[contributors : {n}, contributions : FetchedContributions(n)] :
                n \in 0..2}

\* the loop state create_contributors starts from on a fetched work
FetchedStart(work) ==
    [all_contributors |-> CachedContributors(work.contributors),
     thoth_contributors |-> RemoteContributors(work.contributors),
     contributions |-> work.contributions,
     highest_contribution_ordinal |-> MaxOrdinal(work.contributions),
     calls |-> <<>>,
     resolutions |-> <<>>]

\* what a create_contributors call leaves in the handler's variables
CreateContributorsEnd(fn, record, work, st) ==
    /\ h_record' = record
    /\ h_work' = work
    /\ h_thoth' = st.contributions
    /\ h_calls' = st.calls
    /\ h_out' = None
    /\ h_fn' = fn

\* the creators of the records: with and without an ORCID, and without a name
ListedScieloCreators ==
    {c \in ScieloCreators :
        c.link_resume \in {None, "https://orcid.org/0000-0002-1825-0097"}}

\* scieloloader.py 18-99
ScieloCreateContributorsOnWork ==
    /\ h_fn = "idle"
    /\ \E creators \in SeqsUpTo(ListedScieloCreators, MaxListed),
          work \in FetchedWorks :
        CreateContributorsEnd(
            "scielo.create_contributors", creators, work,
            ScieloLoop(FetchedStart(work), creators, 1, 1, work.contributions, 1))
    /\ UNCHANGED notHandler

\* the contributions of the CSV rows: with and without an ORCID
ListedUbiquityContributions ==
    {c \in UbiquityContributions : c.orcid \in {"", "0000-0002-1825-0097"}}

\* ubiquityloader.py 165-227
UbiquityCreateContributorsOnWork ==
    /\ h_fn = "idle"
    /\ \E contributions \in SeqsUpTo(ListedUbiquityContributions, MaxListed),
          work \in FetchedWorks :
        CreateContributorsEnd(
            "ubiquity.create_contributors", contributions, work,
            UbiquityLoop(FetchedStart(work), contributions, 1, 1,
                         work.contributions, 1))
    /\ UNCHANGED notHandler

\* the creator columns of a CSV row, names separated by pipes
LHarmattanCreatorRows ==
    [scs023_author : {"", "Silva Ana", "Silva Ana|Li Bo", "Silva Ana|Silva Ana",
                      "K. Kiss Pal"},
     scs023_editor : {"", "Li Bo", "Silva Ana"}]

\* lharmattanloader.py 131-140, 144-149: the (creator, contribution_type)
\* pairs in the order the two loops visit them
LHarmattanAllCreators(row) ==
    LET OfColumn(creators, contribution_type) ==
            IF Truthy(creators)
            THEN LET creators_array == Split(creators, "|")
                 IN  [i \in DOMAIN creators_array |->
                        <<creators_array[i], contribution_type>>]
            ELSE <<>>
    IN  OfColumn(row.scs023_author, "AUTHOR") \o OfColumn(row.scs023_editor, "EDITOR")

\* one iteration of the inner loop, lharmattanloader.py 149-199.  The names
\* of the rows are separated by single spaces, so creator.split() is
\* Split(creator, " ").
LHarmattanCreator(st, creator, contribution_type, work_id, work_contributions, r) ==
    LET split_creator == Split(creator, " ")
        name ==
            IF Len(split_creator) = 3
            THEN split_creator[3] \o " " \o split_creator[1]
            ELSE IF Len(split_creator) = 2 THEN split_creator[2] ELSE creator
        surname ==
            IF Len(split_creator) = 3 THEN split_creator[2]
            ELSE IF Len(split_creator) = 2 THEN split_creator[1] ELSE creator
        full_name ==
            IF Len(split_creator) = 3
            THEN split_creator[3] \o " " \o split_creator[1] \o " " \o split_creator[2]
            ELSE IF Len(split_creator) = 2
            THEN split_creator[2] \o " " \o split_creator[1]
            ELSE creator
        contributor ==
            [firstName |-> name, lastName |-> surname, fullName |-> full_name,
             orcid |-> None, website |-> None]
        miss == full_name \notin DOMAIN st.all_contributors
        contributor_id ==
            IF miss THEN NewContributorId(st.thoth_contributors)
            ELSE st.all_contributors[full_name]
        calls1 ==
            IF miss
            THEN Append(st.calls, CallEntry("create_contributor", r, contributor_id,
                                            full_name, None, 0, 0))
            ELSE st.calls
        existing_contribution == HasContribution(work_contributions, contributor_id)
        ordinal == st.highest_contribution_ordinal + 1
    IN  [all_contributors |->
            IF miss THEN Put(st.all_contributors, full_name, contributor_id)
            ELSE st.all_contributors,
         thoth_contributors |->
            IF miss
            THEN Put(st.thoth_contributors, contributor_id,
                     WithContributorId(contributor, contributor_id))
            ELSE st.thoth_contributors,
         contributions |->
            IF existing_contribution THEN st.contributions
            ELSE Append(st.contributions,
                        [contributorId |-> contributor_id,
                         contributionType |-> contribution_type,
                         contributionOrdinal |-> ordinal]),
         highest_contribution_ordinal |->
            IF existing_contribution THEN st.highest_contribution_ordinal
            ELSE ordinal,
         calls |->
            IF existing_contribution THEN calls1
            ELSE Append(calls1, CallEntry("create_contribution", r, contributor_id,
                                          full_name, None, work_id, ordinal)),
         resolutions |->
            Append(st.resolutions,
                   Resolution("lharmattan", r, full_name, None, st.all_contributors,
                              contributor_id, miss))]

RECURSIVE LHarmattanLoop(_, _, _, _, _, _)
LHarmattanLoop(st, all_creators, i, work_id, work_contributions, r) ==
    IF i > Len(all_creators) THEN st
    ELSE LHarmattanLoop(
            LHarmattanCreator(st, all_creators[i][1], all_creators[i][2], work_id,
                              work_contributions, r),
            all_creators, i + 1, work_id, work_contributions, r)

\* lharmattanloader.py 124-199
LHarmattanCreateContributorsOnWork ==
    /\ h_fn = "idle"
    /\ \E row \in LHarmattanCreatorRows, work \in FetchedWorks :
        CreateContributorsEnd(
            "lharmattan.create_contributors", row, work,
            LHarmattanLoop(FetchedStart(work), LHarmattanAllCreators(row), 1, 1,
                           work.contributions, 1))
    /\ UNCHANGED notHandler

\* the entries of record["editor"] and record["author"]
UbiquityApiContributors ==
    {[first_name |-> n[1], last_name |-> n[2], full_name |-> n[3],
      biography |-> "", orcid |-> o, institution |-> ""] :
        n \in {<<"Ana", "Silva", " Ana Silva">>, <<"Bo", "Li", "Bo Li">>},
        o \in {"", "0000-0002-1825-0097"}}

UbiquityApiRecords ==
    [editor : {<<>>} \cup {<<c>> : c \in UbiquityApiContributors},
     author : {<<>>} \cup SeqsUpTo(UbiquityApiContributors, MaxListed)]

\* next(c for c in work.contributions if c.contributor.contributorId == id
\*      and c.contributionType == contribution_type)
HasContributionOfType(work_contributions, contributor_id, contribution_type) ==
    \E i \in DOMAIN work_contributions :
        /\ work_contributions[i].contributorId = contributor_id
        /\ work_contributions[i].contributionType = contribution_type

\* UbiquityAPILoader.create_contributor, ubiquityapiloader.py 93-148; the
\* contributors of the records have no institution, so 150-177 is skipped
UbiquityApiContributor(st, contributor, work_id, work_contributions, r) ==
    LET first_name == Strip(contributor.first_name)
        last_name == Strip(contributor.last_name)
        full_name == Strip(contributor.full_name)
        orcid == sanitise_orcid(contributor.orcid)
        contribution_type == contributor.contribution_type
        cached == UbiquityResolve(st.all_contributors, orcid, full_name)
        miss == cached = None
        contributor_id ==
            IF miss THEN NewContributorId(st.thoth_contributors) ELSE cached
        new_contributor ==
            [firstName |-> first_name, lastName |-> last_name,
             fullName |-> full_name, orcid |-> orcid, website |-> None]
        calls1 ==
            IF miss
            THEN Append(st.calls, CallEntry("create_contributor", r, contributor_id,
                                            full_name, orcid, 0, 0))
            ELSE st.calls
        existing_contribution ==
            HasContributionOfType(work_contributions, contributor_id,
                                  contribution_type)
        ordinal == st.highest_contribution_ordinal + 1
    IN  [all_contributors |->
            IF miss
            THEN UbiquityCache(st.all_contributors, full_name, orcid, contributor_id)
            ELSE st.all_contributors,
         thoth_contributors |->
            IF miss
            THEN Put(st.thoth_contributors, contributor_id,
                     WithContributorId(new_contributor, contributor_id))
            ELSE st.thoth_contributors,
         contributions |->
            IF existing_contribution THEN st.contributions
            ELSE Append(st.contributions,
                        [contributorId |-> contributor_id,
                         contributionType |-> contribution_type,
                         contributionOrdinal |-> ordinal]),
         highest_contribution_ordinal |->
            IF existing_contribution THEN st.highest_contribution_ordinal
            ELSE ordinal,
         calls |->
            IF existing_contribution THEN calls1
            ELSE Append(calls1, CallEntry("create_contribution", r, contributor_id,
                                          full_name, orcid, work_id, ordinal)),
         resolutions |->
            Append(st.resolutions,
                   Resolution("ubiquityapi", r, full_name, orcid, st.all_contributors,
                              contributor_id, miss))]

RECURSIVE UbiquityApiLoop(_, _, _, _, _, _)
UbiquityApiLoop(st, contributors, i, work_id, work_contributions, r) ==
    IF i > Len(contributors) THEN st
    ELSE UbiquityApiLoop(
            UbiquityApiContributor(st, contributors[i], work_id, work_contributions, r),
            contributors, i + 1, work_id, work_contributions, r)

\* ubiquityapiloader.py 179-195: record["editor"] + record["author"], each
\* entry updated with its contribution_type
UbiquityApiEditorsAndAuthors(record) ==
    LET Typed(list, contribution_type) ==
            [i \in DOMAIN list |->
                [k \in DOMAIN list[i] \cup {"contribution_type"} |->
                    IF k = "contribution_type" THEN contribution_type
                    ELSE list[i][k]]]
    IN  Typed(record.editor, "EDITOR") \o Typed(record.author, "AUTHOR")

\* UbiquityAPILoader.create_contributors, ubiquityapiloader.py 179-195
UbiquityApiCreateContributorsOnWork ==
    /\ h_fn = "idle"
    /\ \E record \in UbiquityApiRecords, work \in FetchedWorks :
        CreateContributorsEnd(
            "ubiquityapi.create_contributors", record, work,
            UbiquityApiLoop(FetchedStart(work), UbiquityApiEditorsAndAuthors(record),
                            1, 1, work.contributions, 1))
    /\ UNCHANGED notHandler

HandlerNext ==
    \/ ObpChapterCsvRun
    \/ ScieloCreateContributorsOnWork
    \/ UbiquityCreateContributorsOnWork
    \/ LHarmattanCreateContributorsOnWork
    \/ UbiquityApiCreateContributorsOnWork
    \/ ScieloChapterGetWork
    \/ ScieloCreatePublications
    \/ LHarmattanCreatePublications
    \/ CreateAllIssues

\* C22: after SciELOLoader.create_publications or
\* LHarmattanLoader.create_publications on a work whose publications each had
\* at most one canonical location, every publication of the work has at most
\* one canonical location
C22_AtMostOneCanonicalPerPublication ==
    h_fn \in {"scielo.create_publications", "lharmattan.create_publications"} =>
        \A t \in PublicationTypes :
            h_thoth[t] # <<>> => Cardinality(Canonicals(h_thoth[t][1].locations)) <= 1

\* the elements of a list that belong to a series
OfSeries(list, field, series_id) ==
    SelectSeq(list, LAMBDA x : x[field] = series_id)

\* a source ordinal is not greater than another, a missing one being least
OrdinalNotGreater(a, b) ==
    a = <<>> \/ (b # <<>> /\ a[1] <= b[1])

\* C23: for every list of collected issues, the create_issue calls of each
\* series carry the ordinals 1..n in this order, n being the number of
\* collected issues of the series, and they go through the collected issues
\* of the series, each once, in non-decreasing order of the source ordinal,
\* those without a source ordinal first
C23_IssuesNumberedOneToN ==
    h_fn = "create_all_issues" =>
        /\ Len(h_calls) = Len(h_record)
        /\ \A s \in {"s1", "s2"} :
            LET collected == OfSeries(h_record, "series_id", s)
                issued == OfSeries(h_calls, "seriesId", s)
                n == Len(collected)
            IN  /\ Len(issued) = n
                /\ \A k \in 1..n : issued[k].issueOrdinal = k
                /\ \E pi \in [1..n -> 1..n] :
                    /\ \A i, j \in 1..n : pi[i] = pi[j] => i = j
                    /\ \A k \in 1..n : issued[k].workId = collected[pi[k]].work_id
                    /\ \A k \in 1..(n - 1) :
                         OrdinalNotGreater(collected[pi[k]].issue_ordinal,
                                           collected[pi[k + 1]].issue_ordinal)

\* three issues of one series were collected with a clashing and a missing
\* source ordinal, and numbered
C23_Witness ==
    /\ h_fn = "create_all_issues"
    /\ Len(h_record) = 3
    /\ h_record[1].issue_ordinal = <<2>>
    /\ h_record[2].issue_ordinal = <<>>
    /\ h_record[3].issue_ordinal = <<2>>
    /\ \A i \in 1..3 : h_record[i].series_id = "s1"
    /\ h_record[2].work_id = "w2"
    /\ h_record[1].work_id = "w1"
    /\ h_calls[1].workId = "w2"
    /\ h_calls[3].issueOrdinal = 3

\* C25: the doi of the payload get_work builds for a chapter is null or a
\* DOI that no work other than the chapter itself holds, on the create path
\* and on the update path
C25_NoDoiOfAnotherWork ==
    (h_fn = "scielo_chapter.get_work" /\ h_out.raised = None) =>
        \/ h_out.doi = None
        \/ h_out.doi \notin h_work.others

\* a chapter that does not exist yet comes with a DOI another work holds,
\* and the payload has no DOI
C25_Witness ==
    /\ h_fn = "scielo_chapter.get_work"
    /\ h_work.chapter = <<>>
    /\ h_record.descriptive_information = "10.7476/a"
    /\ "https://doi.org/10.7476/a" \in h_work.others
    /\ h_out = [doi |-> None, raised |-> None]

\* C26: on the update path, when no remote work holds the DOI of the JSON
\* record, check_duplicate_doi returns that DOI unchanged and does not
\* raise, whether or not the existing chapter has a DOI
C26_NewDoiKeptOnUpdate ==
    (/\ h_fn = "scielo_chapter.get_work"
     /\ h_work.chapter # <<>>
     /\ Truthy(h_record.descriptive_information)
     /\ WorkByDoi(h_work, sanitise_doi(h_record.descriptive_information))
            = "ThothError") =>
        h_out = [doi |-> sanitise_doi(h_record.descriptive_information),
                 raised |-> None]

----------------------------------------------------------------------------
(***************************************************************************)
(* ObpChapterLoaderCrossref.run (obpchapterloadercrossref.py 13-61) for    *)
(* one book: one step per iteration of the while loop.  get_doi returns    *)
(* False for a DOI Crossref does not have and its metadata otherwise; its  *)
(* retries are the subject of the Crossref client above.                   *)
(***************************************************************************)

\* the chapter ordinals Crossref or Thoth may have a DOI for
MaxChapters == 3

\* what Crossref has for a chapter DOI
CrossrefAnswers == {"missing", "book-chapter", "other-publisher", "other-type"}

\* crossref.py 12-20: get_doi for the DOI of an ordinal
GetCrossrefMetadata(ordinal) ==
    IF ordinal \in DOMAIN o_crossref THEN o_crossref[ordinal] ELSE "missing"

ObpInit ==
    /\ o_pc = "idle"
    /\ relation_ordinal = 1
    /\ skip_count = 0
    /\ o_crossref = <<>>
    /\ o_thoth = {}
    /\ o_missed = <<>>
    /\ o_calls = <<>>

ObpIdle ==
    /\ o_pc = "off"
    /\ relation_ordinal = 1
    /\ skip_count = 0
    /\ o_crossref = <<>>
    /\ o_thoth = {}
    /\ o_missed = <<>>
    /\ o_calls = <<>>

\* obpchapterloadercrossref.py 16-21: the next book of all_books
NextBook ==
    /\ o_pc = "idle"
    /\ \E crossref \in [1..MaxChapters -> CrossrefAnswers],
          thoth \in SUBSET (1..MaxChapters) :
        /\ o_crossref' = crossref
        /\ o_thoth' = thoth
    /\ relation_ordinal' = 1
    /\ skip_count' = 0
    /\ o_pc' = "loop"
    /\ UNCHANGED <<o_missed, o_calls, notObp>>

\* obpchapterloadercrossref.py 27-29
DoiInThoth ==
    /\ o_pc = "loop"
    /\ skip_count < 2
    /\ relation_ordinal \in o_thoth
    /\ relation_ordinal' = relation_ordinal + 1
    /\ UNCHANGED <<o_pc, skip_count, o_crossref, o_thoth, o_missed, o_calls,
                   notObp>>

\* obpchapterloadercrossref.py 31-34
NotInCrossref ==
    /\ o_pc = "loop"
    /\ skip_count < 2
    /\ relation_ordinal \notin o_thoth
    /\ GetCrossrefMetadata(relation_ordinal) = "missing"
    /\ skip_count' = skip_count + 1
    /\ o_missed' = Append(o_missed, relation_ordinal)
    /\ UNCHANGED <<o_pc, relation_ordinal, o_crossref, o_thoth, o_calls, notObp>>

\* obpchapterloadercrossref.py 36-46
SkipOtherDoi ==
    /\ o_pc = "loop"
    /\ skip_count < 2
    /\ relation_ordinal \notin o_thoth
    /\ GetCrossrefMetadata(relation_ordinal) \in {"other-publisher", "other-type"}
    /\ relation_ordinal' = relation_ordinal + 1
    /\ UNCHANGED <<o_pc, skip_count, o_crossref, o_thoth, o_missed, o_calls,
                   notObp>>

\* obpchapterloadercrossref.py 48-61
CreateChapter ==
    /\ o_pc = "loop"
    /\ skip_count < 2
    /\ relation_ordinal \notin o_thoth
    /\ GetCrossrefMetadata(relation_ordinal) = "book-chapter"
    /\ o_thoth' = o_thoth \cup {relation_ordinal}
    /\ o_calls' = o_calls \o
            <<[op |-> "create_work", ordinal |-> relation_ordinal],
              [op |-> "create_work_relation", ordinal |-> relation_ordinal]>>
    /\ relation_ordinal' = relation_ordinal + 1
    /\ UNCHANGED <<o_pc, skip_count, o_crossref, o_missed, notObp>>

\* obpchapterloadercrossref.py 23: the while loop of the book ends
EndOfBook ==
    /\ o_pc = "loop"
    /\ skip_count >= 2
    /\ o_pc' = "done"
    /\ UNCHANGED <<relation_ordinal, skip_count, o_crossref, o_thoth, o_missed,
                   o_calls, notObp>>

ObpNext ==
    \/ NextBook
    \/ DoiInThoth
    \/ NotInCrossref
    \/ SkipOtherDoi
    \/ CreateChapter
    \/ EndOfBook

\* C27: the loop over the chapters of a book ends only after Crossref has
\* reported two different chapter ordinals missing: after a miss for ordinal
\* n the next probe is for ordinal n + 1
C27_EndsAfterTwoOrdinalsMissing ==
    o_pc = "done" =>
        \E i, j \in DOMAIN o_missed : o_missed[i] # o_missed[j]

\* the create_work_relation calls of the handler
RelationCalls == SelectSeq(h_calls, LAMBDA c : c.op = "create_work_relation")

\* C28: within one run of ObpChapterLoaderCsv no two chapters related to the
\* same book are given the same relationOrdinal, whatever the order of the
\* rows and whether or not the CSV book title is the fullTitle of the book
\* the title search returns
C28_OrdinalsDistinctPerBook ==
    h_fn = "obp_chapter_csv.run" =>
        \A i, j \in DOMAIN RelationCalls :
            (i # j /\ RelationCalls[i].relatorWorkId = RelationCalls[j].relatorWorkId)
                => RelationCalls[i].relationOrdinal # RelationCalls[j].relationOrdinal

\* the handlers that run one create_contributors call on a fetched work
CreateContributorsFns ==
    {"scielo.create_contributors", "lharmattan.create_contributors",
     "ubiquity.create_contributors", "ubiquityapi.create_contributors"}

\* the create_contribution calls of the handler
ContributionCalls == SelectSeq(h_calls, LAMBDA c : c.op = "create_contribution")

\* C29: in SciELOLoader, LHarmattanLoader, UbiquityPressesLoader and
\* UbiquityAPILoader the contributionOrdinal values sent in the
\* create_contribution calls of one create_contributors call are pairwise
\* distinct, and each is strictly greater than every contributionOrdinal the
\* work had when it was fetched
C29_OrdinalsDistinctAndAboveFetched ==
    h_fn \in CreateContributorsFns =>
        /\ \A i, j \in DOMAIN ContributionCalls :
                ContributionCalls[i].ordinal = ContributionCalls[j].ordinal => i = j
        /\ \A i \in DOMAIN ContributionCalls, k \in DOMAIN h_work.contributions :
                ContributionCalls[i].ordinal
                    > h_work.contributions[k].contributionOrdinal

\* two contributions were created on a fetched work whose only contribution
\* has an ordinal above the number of its contributions
C29_Witness ==
    /\ h_fn \in CreateContributorsFns
    /\ Len(ContributionCalls) >= 2
    /\ Len(h_work.contributions) = 1
    /\ h_work.contributions[1].contributionOrdinal = 3

\* the contributions of a work that belong to one contributor
OfContributor(contributions, contributor_id) ==
    SelectSeq(contributions, LAMBDA c : c.contributorId = contributor_id)

\* C30: after create_contributors in SciELOLoader, LHarmattanLoader and
\* UbiquityPressesLoader, a work that had at most one contribution per
\* contributor still has at most one: no create_contribution call is made
\* for a contributor who has a contribution on the work, be it a fetched one
\* or one created earlier in the same call
C30_OneContributionPerContributor ==
    (/\ h_fn \in {"scielo.create_contributors", "lharmattan.create_contributors",
                  "ubiquity.create_contributors"}
     /\ \A c \in {h_work.contributions[k].contributorId :
                        k \in DOMAIN h_work.contributions} :
            Len(OfContributor(h_work.contributions, c)) <= 1) =>
        \A c \in {h_thoth[k].contributorId : k \in DOMAIN h_thoth} :
            Len(OfContributor(h_thoth, c)) <= 1

----------------------------------------------------------------------------
(***************************************************************************)
(* The specifications.                                                     *)
(***************************************************************************)

InitMerge == MergeInit /\ ContribIdle /\ PubIdle /\ SeriesIdle /\ CrossrefIdle
    /\ RunIdle
    /\ SanIdle
    /\ HandlerIdle
    /\ ObpIdle

SpecMerge == InitMerge /\ [][MergeNext]_vars

InitContrib == ContribInit /\ MergeIdle /\ PubIdle /\ SeriesIdle /\ CrossrefIdle
    /\ RunIdle
    /\ SanIdle
    /\ HandlerIdle
    /\ ObpIdle

SpecContrib == InitContrib /\ [][ContribNext]_vars

InitPub == PubInit /\ MergeIdle /\ ContribIdle /\ SeriesIdle /\ CrossrefIdle
    /\ RunIdle
    /\ SanIdle
    /\ HandlerIdle
    /\ ObpIdle

SpecPub == InitPub /\ [][PubNext]_vars

InitSeries == SeriesInit /\ MergeIdle /\ ContribIdle /\ PubIdle /\ CrossrefIdle
    /\ RunIdle
    /\ SanIdle
    /\ HandlerIdle
    /\ ObpIdle

SpecSeries == InitSeries /\ [][SeriesNext]_vars

InitCrossref ==
    CrossrefInit /\ MergeIdle /\ ContribIdle /\ PubIdle /\ SeriesIdle
    /\ RunIdle
    /\ SanIdle
    /\ HandlerIdle
    /\ ObpIdle

SpecCrossref == InitCrossref /\ [][CrossrefNext]_vars

InitRun ==
    /\ RunInit /\ MergeIdle /\ ContribIdle /\ PubIdle /\ SeriesIdle
    /\ CrossrefIdle
    /\ SanIdle
    /\ HandlerIdle
    /\ ObpIdle

SpecRun == InitRun /\ [][RunNext]_vars

InitSan ==
    /\ SanInit /\ MergeIdle /\ ContribIdle /\ PubIdle /\ SeriesIdle
    /\ CrossrefIdle /\ RunIdle
    /\ HandlerIdle
    /\ ObpIdle

SpecSan == InitSan /\ [][SanNext]_vars

InitHandler ==
    /\ HandlerInit /\ MergeIdle /\ ContribIdle /\ PubIdle /\ SeriesIdle
    /\ CrossrefIdle /\ RunIdle
    /\ SanIdle
    /\ ObpIdle

SpecHandler == InitHandler /\ [][HandlerNext]_vars

InitObp ==
    /\ ObpInit /\ MergeIdle /\ ContribIdle /\ PubIdle /\ SeriesIdle
    /\ CrossrefIdle /\ RunIdle
    /\ SanIdle
    /\ HandlerIdle

SpecObp == InitObp /\ [][ObpNext]_vars

====
